---- MODULE Spec2Model ----
(***************************************************************************)
(* discord-mcp (src/index.js): an MCP server that maps tool calls onto     *)
(* discord.js calls.  The model follows the event loop of the process: one *)
(* step is one task of the loop (a tool call arriving, a gateway event, a  *)
(* REST response arriving) together with every continuation that the task  *)
(* makes runnable, up to the next await on something still outstanding.    *)
(***************************************************************************)
EXTENDS Integers, Sequences, FiniteSets, TLC

None == "none"

\* ------------------------------------------------------------ bounds
MaxItems == 2        \* longest batch argument list
MaxRequests == 3     \* tool calls received in one behaviour
MaxBatchCalls == 2   \* batch calls received in one behaviour of SpecBatch
MaxIds == 2          \* ids the platform can still hand out (its object limit)
MaxBanned == 1       \* longest mass_ban list where two calls may overlap
MaxClock == 2        \* ticks of the clock in one behaviour

Guilds == {"g1", "g2"}          \* guild ids a caller may name
Calls == {"c1", "c2"}           \* tool calls that may be in progress together
Keys == {"k1", "n1"}            \* ids a caller may name: k1 exists from the start,
                                \* n1 is the first id the platform hands out
Names == {"ann"}                \* a display name: the username of member k1
IdNames == <<"n1", "n2", "n3", "n4">>   \* ids the platform hands out, in order
MemberCounts == {10, 11}        \* values of guild.memberCount
NotInGuild == 0                 \* guildCache[g] when the bot is not in g

VARIABLES
  alive,         \* the node process is running
  discordReady,  \* state of the discordReady promise
  file,          \* content of .discord-mcp-config.json
  guildCache,    \* discord.guilds.cache: guild -> memberCount, or NotInGuild
  plat,          \* platform objects: channels, roles, bans, timeouts, messages
  nextId,        \* ids the platform has handed out so far
  calls,         \* per call slot: the CallToolRequest handler's progress
  waiting,       \* calls parked on `await discordReady`, in arrival order
  nreq,          \* tool calls received so far
  hist,          \* history: what the callers have been told so far
  now            \* the clock read by Date.now(), in ms

vars == <<alive, discordReady, file, guildCache, plat, nextId, calls, waiting, nreq, hist, now>>

\* ------------------------------------------------------------ tools
GuildTools == {"set_guild", "get_guild", "list_guilds"}
CreateTools == {"mass_channels", "mass_categories", "mass_voice_channels", "mass_create_role"}
DeleteTools == {"mass_delete", "mass_delete_role"}
BatchTools == CreateTools \cup DeleteTools \cup
              {"mass_send_message", "mass_delete_message", "mass_ban", "mass_time_out"}
UnknownTools == {"no_such_tool"}

\* ------------------------------------------------------------ config store
MissingFile == [kind |-> "missing", default_guild_id |-> None, extra |-> FALSE]
GarbageFile == [kind |-> "garbage", default_guild_id |-> None, extra |-> FALSE]
EmptyConfig == [type |-> "object", default_guild_id |-> None, extra |-> FALSE]

\* JSON.parse of the file's text: [ok, value].  The text may be no JSON at all, or the
\* JSON of null, of an array, of a number, string or boolean, or of an object
JSONparse(f) ==
  CASE f.kind = "garbage" -> [ok |-> FALSE, value |-> EmptyConfig]
    [] f.kind = "null"    -> [ok |-> TRUE, value |-> [EmptyConfig EXCEPT !.type = "null"]]
    [] f.kind = "array"   -> [ok |-> TRUE, value |-> [EmptyConfig EXCEPT !.type = "array"]]
    [] f.kind = "scalar"  -> [ok |-> TRUE, value |-> [EmptyConfig EXCEPT !.type = "scalar"]]
    [] OTHER              -> [ok |-> TRUE, value |-> [type |-> "object",
                                default_guild_id |-> f.default_guild_id, extra |-> f.extra]]

\* JSON.stringify: an array keeps its elements only, named properties are not written
JSONstringify(config) ==
  CASE config.type = "null"  -> [kind |-> "null", default_guild_id |-> None, extra |-> FALSE]
    [] config.type = "array" -> [kind |-> "array", default_guild_id |-> None, extra |-> FALSE]
    [] config.type = "scalar" -> [kind |-> "scalar", default_guild_id |-> None, extra |-> FALSE]
    [] OTHER -> [kind |-> "object", default_guild_id |-> config.default_guild_id,
                 extra |-> config.extra]

loadConfig(f) ==
  IF f.kind # "missing" /\ JSONparse(f).ok THEN JSONparse(f).value ELSE EmptyConfig

\* a slip: the new default is kept in the config object only, nothing is written
saveConfigNowhere(S, config, by) == S

saveConfig(S, config, by) ==
  [S EXCEPT !.file = JSONstringify(config), !.hist.lastWriter = by]

\* ------------------------------------------------------------ call records
NoArgs == [guild_id |-> None, channel_id |-> None, items |-> <<>>,
           message_id |-> None, user_id |-> None, role_id |-> None, thread_id |-> None,
           limit |-> <<>>, duration_minutes |-> <<>>, include_archived |-> FALSE]
NoResponse == [isError |-> FALSE, text |-> <<>>]
NoObs == [lastSet |-> None, rebooted |-> FALSE, prev |-> <<>>]
IdleCall == [pc |-> "idle", name |-> None, args |-> NoArgs, guild |-> None,
             pre |-> [st |-> "none", n |-> 0], channel |-> None,
             items |-> <<>>, order |-> <<>>, response |-> NoResponse, obs |-> NoObs,
             parked |-> FALSE,
             stage |-> 0, wait |-> None, log |-> <<>>, member |-> None, role |-> None,
             todo |-> <<>>, val |-> None, exit |-> <<>>, t0 |-> 0, home |-> None]
NewCall(name, args) == [IdleCall EXCEPT !.pc = "awaitReady", !.name = name, !.args = args]

\* the part of the state that synchronous handler code reads and writes
Cur == [file |-> file, calls |-> calls, hist |-> hist, plat |-> plat, nextId |-> nextId,
        now |-> now]

\* CallToolRequestSchema handler: what becomes of handleTool's return value or throw
ReturnResponse(result) == [isError |-> FALSE, text |-> <<"json", result>>]
ThrowResponse(message) == [isError |-> TRUE, text |-> <<"Error: ", message>>]

\* a slip: the catch branch without `isError: true`
CallToolResponseUnflagged(exit) ==
  IF exit[1] = "returned" THEN ReturnResponse(exit[2])
  ELSE [isError |-> FALSE, text |-> <<"Error: ", exit[2]>>]

\* try { result = await handleTool(...); return {...} } catch (err) { return {...} }
CallToolResponse(exit) ==
  IF exit[1] = "returned" THEN ReturnResponse(exit[2]) ELSE ThrowResponse(exit[2])

\* handleTool returns result, or throws an Error with the message
Return(S, c, result) ==
  [S EXCEPT !.calls[c].pc = "done", !.calls[c].exit = <<"returned", result>>,
            !.calls[c].response = CallToolResponse(<<"returned", result>>)]
Throw(S, c, message) ==
  [S EXCEPT !.calls[c].pc = "done", !.calls[c].exit = <<"threw", message>>,
            !.calls[c].response = CallToolResponse(<<"threw", message>>)]

Succeeded(call) == call.pc = "done" /\ ~call.response.isError
Failed(call) == call.pc = "done" /\ call.response.isError
ResultOf(call) == call.response.text[2]
ErrorOf(call) == call.response.text[2]

\* ------------------------------------------------------------ guild resolution
GuildName(g) == <<"name of", g>>
InGuildCache(g) == g \in Guilds /\ guildCache[g] # NotInGuild

\* a guild other than g that the bot is in, whose channels discord.channels holds too
OtherGuilds(g) == {h \in Guilds \ {g} : InGuildCache(h)}
OtherGuild(g) == CHOOSE h \in OtherGuilds(g) : TRUE
Elsewhere(g) == IF OtherGuilds(g) # {} THEN {"elsewhere"} ELSE {}

ErrNoGuild == "No guild_id provided and no default guild set. Use set_guild first."
ErrGuildNotFound == "Guild not found or bot is not in this server"
ErrUnknownTool == "Unknown tool"
ErrLogin == "login rejected"
ErrTypeError == "TypeError"

\* a slip: with no default the first guild of the cache is taken
resolveGuildIdAnyGuild(S, args) ==
  IF args.guild_id # None THEN [ok |-> TRUE, value |-> args.guild_id]
  ELSE LET config == loadConfig(S.file) IN
       IF config.default_guild_id # None
       THEN [ok |-> TRUE, value |-> config.default_guild_id]
       ELSE [ok |-> TRUE, value |-> "g1"]

\* resolveGuildId(args): [ok, value | err]
resolveGuildId(S, args) ==
  IF args.guild_id # None THEN [ok |-> TRUE, value |-> args.guild_id]
  ELSE LET config == loadConfig(S.file) IN
       IF config.type = "null" THEN [ok |-> FALSE, err |-> ErrTypeError]
       ELSE IF config.default_guild_id # None
            THEN [ok |-> TRUE, value |-> config.default_guild_id]
            ELSE [ok |-> FALSE, err |-> ErrNoGuild]

\* a slip: the guild is not looked up in the cache
getGuildUnchecked(guildId) == [ok |-> TRUE, err |-> None]

\* getGuild(guildId): [ok, err]
getGuild(guildId) ==
  IF InGuildCache(guildId) THEN [ok |-> TRUE, err |-> None]
  ELSE [ok |-> FALSE, err |-> ErrGuildNotFound]

\* ------------------------------------------------------------ guild tools
\* a slip: a default that is already there is not overwritten
set_guild_once(S, c) ==
  LET args == S.calls[c].args IN
  IF ~getGuild(args.guild_id).ok THEN Throw(S, c, ErrGuildNotFound)
  ELSE LET config == loadConfig(S.file)
           S1 == IF config.default_guild_id # None THEN S
                 ELSE saveConfig(S, [config EXCEPT !.default_guild_id = args.guild_id],
                                 "set_guild") IN
       Return(S1, c, [success |-> TRUE, default_guild_id |-> args.guild_id,
                      guild_name |-> GuildName(args.guild_id)])

\* a slip: the record written is built afresh, not loaded
set_guild_afresh(S, c) ==
  LET args == S.calls[c].args IN
  IF ~getGuild(args.guild_id).ok THEN Throw(S, c, ErrGuildNotFound)
  ELSE Return(saveConfig(S, [EmptyConfig EXCEPT !.default_guild_id = args.guild_id], "set_guild"),
              c, [success |-> TRUE, default_guild_id |-> args.guild_id,
                  guild_name |-> GuildName(args.guild_id)])

set_guild(S, c) ==
  LET args == S.calls[c].args IN
  IF ~getGuild(args.guild_id).ok THEN Throw(S, c, ErrGuildNotFound)
  ELSE LET config == loadConfig(S.file) IN
       IF config.type \in {"null", "scalar"} THEN Throw(S, c, ErrTypeError)
       ELSE Return(saveConfig(S, [config EXCEPT !.default_guild_id = args.guild_id], "set_guild"),
                   c, [success |-> TRUE, default_guild_id |-> args.guild_id,
                       guild_name |-> GuildName(args.guild_id)])

\* a slip: get_guild forgets a default whose guild the bot is no longer in
get_guild_forgetting(S, c) ==
  LET config == loadConfig(S.file) IN
  IF config.default_guild_id # None /\ ~getGuild(config.default_guild_id).ok
  THEN Return(saveConfig(S, [config EXCEPT !.default_guild_id = None], "get_guild"), c,
              [default_guild_id |-> None, message |-> "No default guild set. Use set_guild."])
  ELSE IF config.default_guild_id = None
  THEN Return(S, c, [default_guild_id |-> None, message |-> "No default guild set. Use set_guild."])
  ELSE Return(S, c, [default_guild_id |-> config.default_guild_id,
                     guild_name |-> GuildName(config.default_guild_id),
                     member_count |-> guildCache[config.default_guild_id]])

get_guild(S, c) ==
  LET config == loadConfig(S.file) IN
  IF config.type = "null" THEN Throw(S, c, ErrTypeError)
  ELSE IF config.default_guild_id = None
  THEN Return(S, c, [default_guild_id |-> None, message |-> "No default guild set. Use set_guild."])
  ELSE IF getGuild(config.default_guild_id).ok
  THEN Return(S, c, [default_guild_id |-> config.default_guild_id,
                     guild_name |-> GuildName(config.default_guild_id),
                     member_count |-> guildCache[config.default_guild_id]])
  ELSE Return(S, c, [default_guild_id |-> config.default_guild_id,
                     message |-> "Saved but bot may no longer be in this server"])

list_guilds(S, c) ==
  LET config == loadConfig(S.file) IN
  IF config.type = "null" THEN Throw(S, c, ErrTypeError)
  ELSE Return(S, c,
         [guilds |-> {[id |-> g, name |-> GuildName(g), member_count |-> guildCache[g],
                       is_default |-> (g = config.default_guild_id)] :
                      g \in {h \in Guilds : InGuildCache(h)}},
          default_guild_id |-> config.default_guild_id])

\* ------------------------------------------------------------ platform objects
\* the characters of the strings that the model names by a short token
Digits == {"0", "1", "2", "3", "4", "5", "6", "7", "8", "9"}
Rep(ch, n) == [i \in 1..n |-> ch]
Text(token) ==
  CASE token = "k1" -> Rep("1", 18)
    [] token = "k2" -> Rep("2", 18)
    [] token = "k3" -> Rep("3", 18)
    [] token = "t1" -> Rep("4", 18)
    [] token = "n1" -> Rep("5", 18)
    [] token = "n2" -> Rep("6", 18)
    [] token = "n3" -> Rep("8", 18)
    [] token = "n4" -> Rep("9", 18)
    [] token = "d16" -> Rep("7", 16)
    [] token = "d17" -> Rep("7", 17)
    [] token = "d20" -> Rep("7", 20)
    [] token = "d21" -> Rep("7", 21)
    [] token = "x17" -> Rep("7", 16) \o <<"a">>
    [] token = "ann" -> <<"a", "n", "n">>
    [] token = "ANN" -> <<"A", "N", "N">>
    [] token = "bob" -> <<"b", "o", "b">>
    [] token = "Bob" -> <<"B", "o", "b">>
    [] token = "mods" -> <<"m", "o", "d", "s">>
    [] token = "Mods" -> <<"M", "o", "d", "s">>
    [] OTHER -> <<token>>

\* the order in which the library's caches hold the objects (insertion order)
CacheOrder == <<"k1", "k2", "k3", "t1", "n1", "n2", "n3", "n4">>
Position(id) == CHOOSE i \in 1..Len(CacheOrder) : CacheOrder[i] = id
FirstOf(ids) == CHOOSE id \in ids : \A other \in ids : Position(id) <= Position(other)

\* String.prototype.toLowerCase
LowerChar(ch) ==
  CASE ch = "A" -> "a" [] ch = "B" -> "b" [] ch = "M" -> "m" [] ch = "N" -> "n" [] OTHER -> ch
toLowerCase(str) == [i \in 1..Len(str) |-> LowerChar(str[i])]

\* a slip: {17,} in place of {17,20}, no upper limit on the number of digits
IsSnowflakeNoMax(token) ==
  Len(Text(token)) >= 17 /\ \A i \in 1..Len(Text(token)) : Text(token)[i] \in Digits

\* /^\d{17,20}$/.test(token)
IsSnowflake(token) ==
  /\ Len(Text(token)) >= 17 /\ Len(Text(token)) <= 20
  /\ \A i \in 1..Len(Text(token)) : Text(token)[i] \in Digits

\* the members of a guild, in the order of guild.members.cache after a full fetch
Roster ==
  << [id |-> "k1", username |-> "ann", displayName |-> "ann", globalName |-> None],
     [id |-> "k2", username |-> "bob", displayName |-> "d17", globalName |-> "bob"],
     [id |-> "k3", username |-> "cy", displayName |-> "d16", globalName |-> "ANN"] >>
MemberIds == {Roster[i].id : i \in 1..Len(Roster)}
Members == {<<g, u>> : g \in Guilds, u \in MemberIds}
Username(u) ==
  IF u \in MemberIds THEN (CHOOSE m \in {Roster[i] : i \in 1..Len(Roster)} : m.id = u).username
  ELSE None

\* a slip: only the account name is compared
MatchesUsernameOnly(m, token) ==
  toLowerCase(Text(m.username)) = toLowerCase(Text(token))

\* the predicate given to guild.members.cache.find
MatchesMember(m, token) ==
  LET lower == toLowerCase(Text(token)) IN
  \/ toLowerCase(Text(m.username)) = lower
  \/ toLowerCase(Text(m.displayName)) = lower
  \/ (m.globalName # None /\ toLowerCase(Text(m.globalName)) = lower)

\* guild.members.cache.find(...): the first member in cache order, or None
findMember(token) ==
  LET hits == {i \in 1..Len(Roster) : MatchesMember(Roster[i], token)} IN
  IF hits = {} THEN None
  ELSE Roster[CHOOSE i \in hits : \A j \in hits : i <= j].id

ErrPlatform == "rejected by the platform"
ErrChannelNotFound == "Channel not found"
ErrChannelOrThreadNotFound == "Channel/thread not found"
ErrNotTextBased == "Channel is not text-based"
ErrRoleNotFound == "Role not found"
ErrUserNotFound == "User not found in this server"

ChannelsIn(P, g, id) == {ch \in P.channels : ch.guild = g /\ ch.id = id}
RolesIn(P, g, id) == {r \in P.roles : r.guild = g /\ r.id = id}

\* resolveRole(guild, roleIdOrName): [ok, value | err], no remote call
resolveRole(P, g, token) ==
  IF IsSnowflake(token)
  THEN (IF RolesIn(P, g, token) # {} THEN [ok |-> TRUE, value |-> token]
        ELSE [ok |-> FALSE, err |-> ErrRoleNotFound])
  ELSE LET hits == {r.id : r \in {x \in P.roles : x.guild = g /\
                       toLowerCase(Text(x.name)) = toLowerCase(Text(token))}} IN
       IF hits = {} THEN [ok |-> FALSE, err |-> ErrRoleNotFound]
       ELSE [ok |-> TRUE, value |-> FirstOf(hits)]
isTextBased(ch) == ch.type # "category"
CanCreate(S) == S.nextId < MaxIds /\ S.nextId < Len(IdNames)
NewId(S) == IdNames[S.nextId + 1]

ChannelTypeOf(name) ==
  CASE name \in {"mass_categories", "create_category"} -> "category"
    [] name \in {"mass_voice_channels", "create_voice_channel"} -> "voice"
    [] OTHER -> "text"

\* ------------------------------------------------------------ batch items
Item(st, n) == [st |-> st, val |-> None, err |-> None, n |-> n]
Settled(it) == it.st \in {"fulfilled", "rejected"}
Reject(it, err) == [it EXCEPT !.st = "rejected", !.err = err]
Fulfil(it, val) == [it EXCEPT !.st = "fulfilled", !.val = val]
Issue(it, st) == [it EXCEPT !.st = st, !.n = @ + 1]

\* resolveTextChannel up to its first await: the cache lookup
resolveTextChannelStart(P, g, channelId) ==
  LET hit == ChannelsIn(P, g, channelId) IN
  IF hit # {} THEN (IF \A ch \in hit : isTextBased(ch) THEN "found" ELSE "nontext")
  ELSE "fetch"

\* a slip: a rejected listing of the active threads is taken for an empty one
resolveTextChannelSwallow(st, out) ==
  CASE out = "text"                      -> [st |-> "found", err |-> None]
    [] st = "fetch" /\ out = "nontext"   -> [st |-> "rejected", err |-> ErrNotTextBased]
    [] st = "fetch"                      -> [st |-> "threads", err |-> None]
    [] OTHER                             -> [st |-> "rejected", err |-> ErrChannelOrThreadNotFound]

\* a slip: the active threads are not asked for
resolveTextChannelNoThreads(st, out) ==
  CASE out = "text"    -> [st |-> "found", err |-> None]
    [] out = "nontext" -> [st |-> "rejected", err |-> ErrNotTextBased]
    [] OTHER           -> [st |-> "rejected", err |-> ErrChannelOrThreadNotFound]

\* resolveTextChannel resumed by the answer to discord.channels.fetch (st = "fetch")
\* or to guild.channels.fetchActiveThreads (st = "threads").  discord.channels is the
\* client's manager, over the channels of every guild the bot is in: the channel it
\* returns may be one of another guild ("elsewhere")
resolveTextChannelResume(st, out) ==
  CASE st = "fetch" /\ out = "text"      -> [st |-> "found", err |-> None]
    [] st = "fetch" /\ out = "elsewhere" -> [st |-> "found", err |-> None]
    [] st = "fetch" /\ out = "nontext"   -> [st |-> "rejected", err |-> ErrNotTextBased]
    [] st = "fetch"                      -> [st |-> "threads", err |-> None]
    [] st = "threads" /\ out = "text"    -> [st |-> "found", err |-> None]
    [] st = "threads" /\ out = "missing" -> [st |-> "rejected", err |-> ErrChannelOrThreadNotFound]
    [] OTHER                             -> [st |-> "rejected", err |-> ErrPlatform]

\* a slip: the callback makes its mutation at once, with the item as it was given
LaunchItemUnresolved(P, name, g, channel, k) == Item("mutate", 1)

\* the callback given to args.<list>.map, run up to its first await
LaunchItem(P, name, g, channel, k) ==
  CASE name \in CreateTools \cup {"mass_ban"} -> Item("mutate", 1)
    [] name = "mass_delete" ->
         IF ChannelsIn(P, g, k) = {} THEN Reject(Item("local", 0), ErrChannelNotFound)
         ELSE Item("mutate", 1)
    [] name = "mass_delete_role" ->
         IF RolesIn(P, g, k) = {} THEN Reject(Item("local", 0), ErrRoleNotFound)
         ELSE Item("mutate", 1)
    [] name = "mass_send_message" ->
         LET r == resolveTextChannelStart(P, g, k) IN
         CASE r = "found" -> Item("mutate", 1)
           [] r = "nontext" -> Reject(Item("local", 0), ErrNotTextBased)
           [] OTHER -> Item("fetch", 1)
    [] name = "mass_delete_message" ->
         IF k \in P.msgCache THEN Item("mutate", 1) ELSE Item("getmsg", 1)
    [] name = "mass_time_out" ->
         IF IsSnowflake(k)
         THEN (IF <<g, k>> \in P.memberCache THEN [Item("mutate", 1) EXCEPT !.val = k]
               ELSE Item("getmember", 1))
         ELSE Item("getall", 1)
    [] OTHER -> Item("mutate", 1)

KeyField(name) ==
  CASE name \in CreateTools -> "name"
    [] name \in DeleteTools -> "id"
    [] name = "mass_send_message" -> "channel_id"
    [] name = "mass_delete_message" -> "message_id"
    [] OTHER -> "user_id"

SuccessStatus(name) ==
  CASE name \in CreateTools -> "created"
    [] name \in DeleteTools \cup {"mass_delete_message"} -> "deleted"
    [] name = "mass_send_message" -> "sent"
    [] name = "mass_ban" -> "banned"
    [] OTHER -> "timed_out"

\* a slip: r.status is not looked at, every settled operation counts as a success
OutcomeUnchecked(name, key, it) ==
  CASE name \in CreateTools -> [name |-> key, id |-> it.val, status |-> "created"]
    [] name \in DeleteTools -> [id |-> key, name |-> it.val, status |-> "deleted"]
    [] name = "mass_send_message" ->
         [channel_id |-> key, message_id |-> it.val, status |-> "sent"]
    [] name = "mass_delete_message" -> [message_id |-> key, status |-> "deleted"]
    [] name = "mass_ban" -> [user_id |-> key, status |-> "banned"]
    [] OTHER -> [user_id |-> key, username |-> it.val, status |-> "timed_out"]

\* results.map((r, i) => r.status === "fulfilled" ? {...} : {...})
\* (mass_time_out's `until`, a reading of the clock, is left out of the outcome)
Outcome(name, key, it) ==
  IF it.st # "fulfilled"
  THEN (KeyField(name) :> key) @@ [status |-> "failed", error |-> it.err]
  ELSE CASE name \in CreateTools ->
              [name |-> key, id |-> it.val, status |-> "created"]
         [] name \in DeleteTools ->
              [id |-> key, name |-> it.val, status |-> "deleted"]
         [] name = "mass_send_message" ->
              [channel_id |-> key, message_id |-> it.val, status |-> "sent"]
         [] name = "mass_delete_message" -> [message_id |-> key, status |-> "deleted"]
         [] name = "mass_ban" -> [user_id |-> key, status |-> "banned"]
         [] OTHER -> [user_id |-> key, username |-> it.val, status |-> "timed_out"]

\* a slip: the outcomes listed in the order in which the operations settled
ResultsByArrival(call) ==
  [j \in 1..Len(call.items) |->
     Outcome(call.name, call.args.items[call.order[j]], call.items[call.order[j]])]

Results(call) ==
  [i \in 1..Len(call.items) |-> Outcome(call.name, call.args.items[i], call.items[i])]

\* a slip: Promise.all in place of Promise.allSettled, the first rejection ends the call
GatherAll(S, c) ==
  LET call == S.calls[c] IN
  IF \E i \in 1..Len(call.items) : call.items[i].st = "rejected"
  THEN Throw(S, c, ErrPlatform)
  ELSE IF \A i \in 1..Len(call.items) : Settled(call.items[i])
  THEN Return(S, c, Results(call))
  ELSE [S EXCEPT !.calls[c].pc = "fanout"]

\* a slip: a batch with a failure takes back what its other items did
GatherUndo(S, c) ==
  LET call == S.calls[c]
      its == call.items
      vals == {its[i].val : i \in {j \in 1..Len(its) : its[j].st = "fulfilled"}} IN
  IF \A i \in 1..Len(its) : Settled(its[i])
  THEN Return(IF \E i \in 1..Len(its) : its[i].st = "rejected"
              THEN [S EXCEPT !.plat.channels = {ch \in @ : ch.id \notin vals},
                             !.plat.roles = {r \in @ : r.id \notin vals},
                             !.plat.msgs = {m \in @ : m.id \notin vals},
                             !.plat.bans = {b \in @ : b[2] \notin vals},
                             !.plat.timeouts = {}]
              ELSE S, c, Results(call))
  ELSE [S EXCEPT !.calls[c].pc = "fanout"]

\* await Promise.allSettled(...): resumes once every item has settled
Gather(S, c) ==
  LET call == S.calls[c] IN
  IF \A i \in 1..Len(call.items) : Settled(call.items[i])
  THEN Return(S, c, Results(call))
  ELSE [S EXCEPT !.calls[c].pc = "fanout"]

\* a slip: `for (...) await callback(x)`, the next item starts when the one before
\* has settled
LaunchFirst(S, c) ==
  LET call == S.calls[c] IN
  [S EXCEPT !.calls[c].items =
     [i \in 1..Len(call.args.items) |->
        IF i = 1
        THEN LaunchItem(S.plat, call.name, call.guild, call.channel, call.args.items[i])
        ELSE Item("pending", 0)]]

LaunchAll(S, c) ==
  LET call == S.calls[c] IN
  [S EXCEPT !.calls[c].items =
     [i \in 1..Len(call.args.items) |->
        LaunchItem(S.plat, call.name, call.guild, call.channel, call.args.items[i])]]

\* args.<list>.map(callback) followed by await Promise.allSettled
FanOut(S, c) ==
  LET S1 == LaunchAll(S, c)
      its == S1.calls[c].items
      S2 == [S1 EXCEPT !.calls[c].order = SelectSeq([i \in 1..Len(its) |-> i],
                                                     LAMBDA i : Settled(its[i]))]
  IN Gather(S2, c)

\* ------------------------------------------------------------ remote calls
\* the answers the platform can give to the remote call an item is waiting on
Answers(S, c, i) ==
  LET call == S.calls[c]  it == call.items[i]  k == call.args.items[i]
      g == call.guild  P == S.plat  name == call.name IN
  CASE it.st = "fetch"     -> {"text", "nontext", "fail"} \cup Elsewhere(g)
    [] it.st = "threads"   -> {"text", "missing", "fail"}
    [] it.st = "getmsg"    -> {"fail"} \cup {"ok" : m \in {m \in P.msgs : m.chan = call.channel /\ m.id = k}}
    [] it.st = "getmember" -> {"fail"} \cup {"ok" : m \in Members \cap {<<g, k>>}}
    [] it.st = "getall"    -> {"ok", "fail"}
    [] it.st = "mutate" ->
         CASE name \in CreateTools \cup {"mass_send_message"} ->
                {"fail"} \cup (IF CanCreate(S) THEN {"ok"} ELSE {})
           [] name = "mass_delete" ->
                {"fail"} \cup (IF ChannelsIn(P, g, k) # {} THEN {"ok"} ELSE {})
           [] name = "mass_delete_role" ->
                {"fail"} \cup (IF RolesIn(P, g, k) # {} THEN {"ok"} ELSE {})
           [] name = "mass_delete_message" ->
                {"fail"} \cup {"ok" : m \in {m \in P.msgs : m.chan = call.channel /\ m.id = k}}
           [] OTHER -> {"ok", "fail"}
    [] OTHER -> {}

\* what a successful mutation does to the platform, and the value it resolves with
Mutation(S, c, i) ==
  LET call == S.calls[c]  it == call.items[i]  k == call.args.items[i]
      g == call.guild  P == S.plat  name == call.name IN
  CASE name = "mass_create_role" ->
         [plat |-> [P EXCEPT !.roles = @ \cup {[guild |-> g, id |-> NewId(S), name |-> k]}],
          nextId |-> S.nextId + 1, val |-> NewId(S)]
    [] name \in CreateTools ->
         [plat |-> [P EXCEPT !.channels = @ \cup
                       {[guild |-> g, id |-> NewId(S), type |-> ChannelTypeOf(name)]}],
          nextId |-> S.nextId + 1, val |-> NewId(S)]
    [] name = "mass_delete" ->
         [plat |-> [P EXCEPT !.channels = @ \ ChannelsIn(P, g, k)],
          nextId |-> S.nextId, val |-> <<"name of", k>>]
    [] name = "mass_delete_role" ->
         [plat |-> [P EXCEPT !.roles = @ \ RolesIn(P, g, k)],
          nextId |-> S.nextId, val |-> <<"name of", k>>]
    [] name = "mass_send_message" ->
         [plat |-> [P EXCEPT !.msgs = @ \cup {[chan |-> k, id |-> NewId(S)]},
                             !.msgCache = @ \cup {NewId(S)}],
          nextId |-> S.nextId + 1, val |-> NewId(S)]
    [] name = "mass_delete_message" ->
         [plat |-> [P EXCEPT !.msgs = {m \in @ : ~(m.chan = call.channel /\ m.id = k)},
                             !.msgCache = @ \ {k}],
          nextId |-> S.nextId, val |-> k]
    [] name = "mass_ban" ->
         [plat |-> [P EXCEPT !.bans = @ \cup {<<g, k>>}], nextId |-> S.nextId, val |-> k]
    [] OTHER ->
         [plat |-> [P EXCEPT !.timeouts = @ \cup {<<g, it.val>>}],
          nextId |-> S.nextId, val |-> Username(it.val)]

\* the item's callback resumed by the platform's answer, up to its next await
ResumeItem(S, c, i, out) ==
  LET call == S.calls[c]  it == call.items[i]  k == call.args.items[i]  g == call.guild IN
  CASE it.st \in {"fetch", "threads"} ->
         LET r == resolveTextChannelResume(it.st, out) IN
         [S EXCEPT !.calls[c].items[i] =
            CASE r.st = "found" -> Issue(it, "mutate")
              [] r.st = "threads" -> Issue(it, "threads")
              [] OTHER -> Reject(it, r.err)]
    [] it.st = "getmsg" ->
         [S EXCEPT !.calls[c].items[i] =
            IF out = "ok" THEN Issue(it, "mutate") ELSE Reject(it, ErrPlatform),
                   !.plat.msgCache = IF out = "ok" THEN @ \cup {k} ELSE @]
    [] it.st = "getmember" ->
         [S EXCEPT !.calls[c].items[i] =
            IF out = "ok" THEN [Issue(it, "mutate") EXCEPT !.val = k] ELSE Reject(it, ErrPlatform),
                   !.plat.memberCache = IF out = "ok" THEN @ \cup {<<g, k>>} ELSE @]
    [] it.st = "getall" ->
         [S EXCEPT !.calls[c].items[i] =
            IF out # "ok" THEN Reject(it, ErrPlatform)
            ELSE IF findMember(k) = None THEN Reject(it, ErrUserNotFound)
            ELSE [Issue(it, "mutate") EXCEPT !.val = findMember(k)],
                   !.plat.memberCache =
                      IF out = "ok" THEN @ \cup {m \in Members : m[1] = g} ELSE @]
    [] OTHER ->
         IF out = "ok"
         THEN LET m == Mutation(S, c, i) IN
              [S EXCEPT !.calls[c].items[i] = Fulfil(it, m.val),
                        !.plat = m.plat, !.nextId = m.nextId]
         ELSE [S EXCEPT !.calls[c].items[i] = Reject(it, ErrPlatform)]

\* an answer arrives for item i: its callback runs on, and Promise.allSettled
\* resumes the handler if this was the last item to settle
OnAnswer(S, c, i, out) ==
  LET S1 == ResumeItem(S, c, i, out)
      S2 == IF Settled(S1.calls[c].items[i])
            THEN [S1 EXCEPT !.calls[c].order = Append(@, i)] ELSE S1
  IN Gather(S2, c)

\* ------------------------------------------------------------ single-operation tools
CreateOne == {"create_channel", "create_category", "create_voice_channel", "create_role"}
MessageTools == {"reply_message", "edit_message", "delete_message", "add_reaction"}
RoleMemberTools == {"assign_role", "remove_role"}
ModerationTools == {"kick_user", "ban_user", "time_out_user"}
ThreadTools == {"send_thread_message", "archive_thread"}
ReadTools == {"get_messages", "channel_analysis", "thread_analysis", "server_analysis",
              "user_analysis", "list_threads"}
SingleTools == CreateOne \cup MessageTools \cup RoleMemberTools \cup ModerationTools
               \cup ThreadTools \cup ReadTools
               \cup {"delete", "delete_role", "send_message", "create_thread", "unban_user"}

ErrThreadNotFound == "Thread not found or bot cannot access it"

\* the steps of each handler, in the order of its statements
Script(name, args) ==
  CASE name \in CreateOne \cup {"unban_user"} -> <<"mutate">>
    [] name = "delete" -> <<"channelCached", "mutate">>
    [] name = "delete_role" -> <<"roleCached", "mutate">>
    [] name \in {"get_messages", "channel_analysis"} -> <<"textChannel", "read">>
    [] name = "send_message" -> <<"textChannel", "mutate">>
    [] name \in MessageTools -> <<"textChannel", "message", "mutate">>
    [] name \in RoleMemberTools -> <<"member", "role", "mutate">>
    [] name = "server_analysis" -> <<"read">>
    [] name = "user_analysis" -> <<"member", "readEach">>
    [] name = "create_thread" ->
         IF args.message_id # None THEN <<"channelCached", "textBased", "message", "mutate">>
         ELSE <<"channelCached", "mutate">>
    [] name \in ThreadTools -> <<"thread", "mutate">>
    [] name = "thread_analysis" -> <<"thread", "read">>
    [] name = "list_threads" -> <<"read", "readArchived">>
    [] name \in ModerationTools -> <<"member", "mutate">>
    [] OTHER -> <<>>

\* x || dflt for an optional number x (<<>> when absent, <<n>> when given),
\* Math.min(a, b), minutes * 60 * 1000
Or(x, dflt) == IF x = <<>> \/ x[1] = 0 THEN dflt ELSE x[1]
Math_min(a, b) == IF a <= b THEN a ELSE b
Ms(minutes) == minutes * 60 * 1000

\* a slip: the limit is passed on as given
FetchLimitUncapped(name, args) == Or(args.limit, 20)

\* the limit of channel.messages.fetch({ limit })
FetchLimit(name, args) ==
  CASE name = "get_messages" -> Math_min(Or(args.limit, 20), 100)
    [] name = "user_analysis" -> Math_min(Or(args.limit, 100), 200)
    [] OTHER -> Math_min(Or(args.limit, 100), 100)

\* the library call a "read" step awaits, and the one a "mutate" step awaits
ReadOp(name) ==
  CASE name = "server_analysis" -> "members.fetch()"
    [] name = "list_threads" -> "fetchActiveThreads"
    [] OTHER -> "messages.fetch"

MutateOp(name) ==
  CASE name \in {"create_channel", "create_category", "create_voice_channel"} -> "channels.create"
    [] name = "create_role" -> "roles.create"
    [] name = "delete" -> "channel.delete"
    [] name = "delete_role" -> "role.delete"
    [] name \in {"send_message", "send_thread_message"} -> "channel.send"
    [] name = "reply_message" -> "message.reply"
    [] name = "edit_message" -> "message.edit"
    [] name = "delete_message" -> "message.delete"
    [] name = "add_reaction" -> "message.react"
    [] name = "assign_role" -> "member.roles.add"
    [] name = "remove_role" -> "member.roles.remove"
    [] name = "create_thread" -> "startThread / threads.create"
    [] name = "archive_thread" -> "thread.edit"
    [] name = "kick_user" -> "member.kick"
    [] name = "ban_user" -> "members.ban"
    [] name = "unban_user" -> "members.unban"
    [] OTHER -> "member.timeout"

\* what the mutation is applied to, and with which argument
MutateTarget(call) ==
  CASE call.name \in ModerationTools \cup RoleMemberTools -> call.member
    [] call.name = "unban_user" -> call.args.user_id
    [] call.name \in MessageTools -> call.args.message_id
    [] call.name = "delete_role" -> call.role
    [] call.name \in CreateOne -> None
    [] OTHER -> call.channel

MutateArg(call) ==
  CASE call.name = "time_out_user" -> Ms(call.args.duration_minutes[1])
    [] call.name \in RoleMemberTools -> call.role
    [] call.name = "create_thread" -> call.args.message_id
    [] OTHER -> None

\* the handler's trace of lookups and library calls, each with the step that made it
Logged(S, c, op, kind, arg, out) ==
  [S EXCEPT !.calls[c].log =
     Append(@, [op |-> op, kind |-> kind, arg |-> arg, out |-> out, at |-> S.now,
                step |-> Script(S.calls[c].name, S.calls[c].args)[S.calls[c].stage]])]
Await(S, c, op, kind, arg) ==
  [Logged(S, c, op, kind, arg, "pending") EXCEPT !.calls[c].pc = "await", !.calls[c].wait = op]
Answered(S, c, out) ==
  [S EXCEPT !.calls[c].log[Len(S.calls[c].log)].out = out, !.calls[c].wait = None,
            !.calls[c].home = IF out = "elsewhere" THEN OtherGuild(S.calls[c].guild) ELSE @]
NextStage(S, c) == [S EXCEPT !.calls[c].stage = @ + 1, !.calls[c].pc = "run"]

\* guild.channels.cache.filter(c => c.type === GuildText && c.viewable), in cache order
TextChannels(P, g) ==
  SelectSeq(CacheOrder, LAMBDA id : \E ch \in ChannelsIn(P, g, id) : ch.type = "text")

\* one step of the handler up to its first await: it goes on to the next step,
\* throws, or awaits a library call
StartStage(S, c) ==
  LET call == S.calls[c]  args == call.args  g == call.guild  P == S.plat
      st == Script(call.name, args)[call.stage] IN
  CASE st = "channelCached" ->
         IF ChannelsIn(P, g, args.channel_id) = {} THEN Throw(S, c, ErrChannelNotFound)
         ELSE NextStage([S EXCEPT !.calls[c].channel = args.channel_id], c)
    [] st = "roleCached" ->
         IF RolesIn(P, g, args.role_id) = {} THEN Throw(S, c, ErrRoleNotFound)
         ELSE NextStage([S EXCEPT !.calls[c].role = args.role_id], c)
    [] st = "textBased" ->
         IF \E ch \in ChannelsIn(P, g, call.channel) : ~isTextBased(ch)
         THEN Throw(S, c, ErrNotTextBased) ELSE NextStage(S, c)
    [] st = "textChannel" ->
         LET r == resolveTextChannelStart(P, g, args.channel_id)
             S1 == Logged(S, c, "channels.cache.get", "cache", args.channel_id,
                          CASE r = "found" -> "text" [] r = "nontext" -> "nontext"
                            [] OTHER -> "missing") IN
         CASE r = "found" -> NextStage([S1 EXCEPT !.calls[c].channel = args.channel_id], c)
           [] r = "nontext" -> Throw(S1, c, ErrNotTextBased)
           [] OTHER -> Await(S1, c, "channels.fetch", "read", args.channel_id)
    [] st = "thread" ->
         IF \E ch \in ChannelsIn(P, g, args.thread_id) : ch.type = "thread"
         THEN NextStage([S EXCEPT !.calls[c].channel = args.thread_id], c)
         ELSE Await(S, c, "channels.fetch", "read", args.thread_id)
    [] st = "member" ->
         IF IsSnowflake(args.user_id)
         THEN (IF <<g, args.user_id>> \in P.memberCache
               THEN NextStage([S EXCEPT !.calls[c].member = args.user_id], c)
               ELSE Await(S, c, "members.fetch(id)", "read", args.user_id))
         ELSE Await(S, c, "members.fetch()", "read", None)
    [] st = "role" ->
         LET r == resolveRole(P, g, args.role_id) IN
         IF r.ok THEN NextStage([S EXCEPT !.calls[c].role = r.value], c)
         ELSE Throw(S, c, r.err)
    [] st = "message" ->
         IF args.message_id \in P.msgCache THEN NextStage(S, c)
         ELSE Await(S, c, "messages.fetch(id)", "read", args.message_id)
    [] st = "read" ->
         Await(S, c, ReadOp(call.name), "read",
               IF ReadOp(call.name) = "messages.fetch" THEN FetchLimit(call.name, args) ELSE None)
    [] st = "readEach" ->
         IF TextChannels(P, g) = <<>> THEN NextStage(S, c)
         ELSE Await([S EXCEPT !.calls[c].todo = TextChannels(P, g)], c,
                    "messages.fetch", "read", FetchLimit(call.name, args))
    [] st = "readArchived" ->
         IF /\ args.include_archived /\ args.channel_id # None
            /\ \E ch \in ChannelsIn(P, g, args.channel_id) : ch.type = "text"
         THEN Await(S, c, "threads.fetchArchived", "read", args.channel_id)
         ELSE NextStage(S, c)
    [] OTHER -> Await(S, c, MutateOp(call.name), "mutation", MutateArg(call))

\* a slip: the thread is taken as found whatever the active threads hold
fetchThreadResumeLenient(wait, out) ==
  CASE out = "thread" -> [st |-> "found", err |-> None]
    [] wait = "channels.fetch" -> [st |-> "threads", err |-> None]
    [] OTHER -> [st |-> "found", err |-> None]

\* fetchThread resumed by the answer to discord.channels.fetch or fetchActiveThreads
fetchThreadResume(wait, out) ==
  CASE out = "thread" -> [st |-> "found", err |-> None]
    [] wait = "channels.fetch" /\ out = "elsewhere" -> [st |-> "found", err |-> None]
    [] wait = "channels.fetch" -> [st |-> "threads", err |-> None]
    [] out = "missing" -> [st |-> "rejected", err |-> ErrThreadNotFound]
    [] OTHER -> [st |-> "rejected", err |-> ErrPlatform]

\* the answers the platform can give to the library call the handler awaits
SingleAnswers(S, c) ==
  LET call == S.calls[c]  args == call.args  g == call.guild  P == S.plat
      st == Script(call.name, args)[call.stage] IN
  CASE st = "textChannel" /\ call.wait = "channels.fetch" ->
         {"text", "nontext", "fail"} \cup Elsewhere(g)
    [] st = "textChannel" -> {"text", "missing", "fail"}
    [] st = "thread" /\ call.wait = "channels.fetch" ->
         {"thread", "other", "fail"} \cup Elsewhere(g)
    [] st = "thread" -> {"thread", "missing", "fail"}
    [] st = "member" /\ call.wait = "members.fetch(id)" ->
         {"fail"} \cup {"ok" : m \in Members \cap {<<g, args.user_id>>}}
    [] st = "message" ->
         {"fail"} \cup {"ok" : m \in {x \in P.msgs : x.chan = call.channel /\ x.id = args.message_id}}
    [] st = "mutate" ->
         CASE call.name \in CreateOne \cup {"send_message", "reply_message", "create_thread",
                                            "send_thread_message"} ->
                {"fail"} \cup (IF CanCreate(S) THEN {"ok"} ELSE {})
           [] call.name = "delete" ->
                {"fail"} \cup (IF ChannelsIn(P, g, call.channel) # {} THEN {"ok"} ELSE {})
           [] call.name = "delete_role" ->
                {"fail"} \cup (IF RolesIn(P, g, call.role) # {} THEN {"ok"} ELSE {})
           [] OTHER -> {"ok", "fail"}
    [] OTHER -> {"ok", "fail"}

\* what the platform does when the mutation succeeds: the objects it changes and the
\* record of the mutation, with the time at which the handler issued it
SingleMutation(S, c) ==
  LET call == S.calls[c]  g == call.guild  P == S.plat  name == call.name
      entry == call.log[Len(call.log)]
      done == [op |-> entry.op, guild |-> IF call.home # None THEN call.home ELSE g,
               scope |-> g, target |-> MutateTarget(call),
               arg |-> entry.arg, at |-> entry.at]
      P1 == [P EXCEPT !.effects = Append(@, done)] IN
  CASE name \in {"create_channel", "create_category", "create_voice_channel"} ->
         [plat |-> [P1 EXCEPT !.channels = @ \cup
                       {[guild |-> g, id |-> NewId(S), type |-> ChannelTypeOf(name)]}],
          nextId |-> S.nextId + 1, val |-> NewId(S)]
    [] name = "create_role" ->
         [plat |-> [P1 EXCEPT !.roles = @ \cup {[guild |-> g, id |-> NewId(S), name |-> "a"]}],
          nextId |-> S.nextId + 1, val |-> NewId(S)]
    [] name = "delete" ->
         [plat |-> [P1 EXCEPT !.channels = @ \ ChannelsIn(P, g, call.channel)],
          nextId |-> S.nextId, val |-> None]
    [] name = "delete_role" ->
         [plat |-> [P1 EXCEPT !.roles = @ \ RolesIn(P, g, call.role)],
          nextId |-> S.nextId, val |-> None]
    [] name \in {"send_message", "reply_message", "send_thread_message"} ->
         [plat |-> [P1 EXCEPT !.msgs = @ \cup {[chan |-> call.channel, id |-> NewId(S)]},
                              !.msgCache = @ \cup {NewId(S)}],
          nextId |-> S.nextId + 1, val |-> NewId(S)]
    [] name = "create_thread" ->
         [plat |-> [P1 EXCEPT !.channels = @ \cup
                       {[guild |-> g, id |-> NewId(S), type |-> "thread"]}],
          nextId |-> S.nextId + 1, val |-> NewId(S)]
    [] name = "delete_message" ->
         [plat |-> [P1 EXCEPT !.msgs = {m \in @ : ~(m.chan = call.channel /\
                                                    m.id = call.args.message_id)},
                              !.msgCache = @ \ {call.args.message_id}],
          nextId |-> S.nextId, val |-> None]
    [] name = "ban_user" ->
         [plat |-> [P1 EXCEPT !.bans = @ \cup {<<g, call.member>>}],
          nextId |-> S.nextId, val |-> None]
    [] name = "time_out_user" ->
         [plat |-> [P1 EXCEPT !.timeouts = @ \cup {<<g, call.member>>}],
          nextId |-> S.nextId, val |-> None]
    [] OTHER -> [plat |-> P1, nextId |-> S.nextId, val |-> None]

\* the step resumed by the platform's answer, up to its next await
ResumeStage(S, c, out) ==
  LET call == S.calls[c]  args == call.args  g == call.guild
      st == Script(call.name, args)[call.stage]
      wait == call.wait
      S0 == Answered(S, c, out) IN
  CASE st = "textChannel" ->
         LET r == resolveTextChannelResume(IF wait = "channels.fetch" THEN "fetch" ELSE "threads",
                                           out) IN
         CASE r.st = "found" ->
                NextStage([S0 EXCEPT !.calls[c].channel = args.channel_id], c)
           [] r.st = "threads" -> Await(S0, c, "fetchActiveThreads", "read", None)
           [] OTHER -> Throw(S0, c, r.err)
    [] st = "thread" ->
         LET r == fetchThreadResume(wait, out) IN
         CASE r.st = "found" -> NextStage([S0 EXCEPT !.calls[c].channel = args.thread_id], c)
           [] r.st = "threads" -> Await(S0, c, "fetchActiveThreads", "read", None)
           [] OTHER -> Throw(S0, c, r.err)
    [] st = "member" /\ wait = "members.fetch(id)" ->
         IF out = "ok"
         THEN NextStage([S0 EXCEPT !.calls[c].member = args.user_id,
                                   !.plat.memberCache = @ \cup {<<g, args.user_id>>}], c)
         ELSE Throw(S0, c, ErrPlatform)
    [] st = "member" ->
         IF out # "ok" THEN Throw(S0, c, ErrPlatform)
         ELSE LET S1 == [S0 EXCEPT !.plat.memberCache = @ \cup {m \in Members : m[1] = g}] IN
              IF findMember(args.user_id) = None THEN Throw(S1, c, ErrUserNotFound)
              ELSE NextStage([S1 EXCEPT !.calls[c].member = findMember(args.user_id)], c)
    [] st = "message" ->
         IF out = "ok"
         THEN NextStage([S0 EXCEPT !.plat.msgCache = @ \cup {args.message_id}], c)
         ELSE Throw(S0, c, ErrPlatform)
    [] st = "read" ->
         IF out = "ok" THEN NextStage(S0, c) ELSE Throw(S0, c, ErrPlatform)
    [] st = "readEach" ->
         IF Len(call.todo) <= 1 THEN NextStage([S0 EXCEPT !.calls[c].todo = <<>>], c)
         ELSE Await([S0 EXCEPT !.calls[c].todo = Tail(@)], c,
                    "messages.fetch", "read", FetchLimit(call.name, args))
    [] st = "readArchived" -> NextStage(S0, c)
    [] OTHER ->
         IF out = "ok"
         THEN LET m == SingleMutation(S, c) IN
              NextStage([S0 EXCEPT !.plat = m.plat, !.nextId = m.nextId,
                                   !.calls[c].val = m.val], c)
         ELSE Throw(S0, c, ErrPlatform)

\* the object the handler returns
SingleResult(S, c) ==
  LET call == S.calls[c]  args == call.args  name == call.name IN
  CASE name \in {"create_channel", "create_category", "create_voice_channel"} ->
         [id |-> call.val, type |-> ChannelTypeOf(name)]
    [] name = "create_role" -> [id |-> call.val]
    [] name = "delete" -> [deleted |-> args.channel_id]
    [] name = "delete_role" -> [deleted |-> args.role_id]
    [] name = "get_messages" -> [channel_id |-> call.channel, messages |-> "messages"]
    [] name = "send_message" -> [message_id |-> call.val, channel_id |-> args.channel_id]
    [] name = "reply_message" ->
         [message_id |-> call.val, channel_id |-> args.channel_id,
          replied_to |-> args.message_id]
    [] name = "edit_message" ->
         [edited_message_id |-> args.message_id, channel_id |-> args.channel_id]
    [] name = "delete_message" ->
         [deleted_message_id |-> args.message_id, channel_id |-> args.channel_id]
    [] name = "add_reaction" -> [message_id |-> args.message_id, status |-> "reacted"]
    [] name \in RoleMemberTools ->
         [user_id |-> call.member, username |-> Username(call.member), role_id |-> call.role,
          status |-> IF name = "assign_role" THEN "assigned" ELSE "removed"]
    [] name = "server_analysis" ->
         [id |-> call.guild, name |-> GuildName(call.guild),
          member_count |-> guildCache[call.guild]]
    [] name = "channel_analysis" -> [channel_id |-> call.channel]
    [] name = "user_analysis" -> [user_id |-> call.member, username |-> Username(call.member)]
    [] name = "create_thread" -> [thread_id |-> call.val, parent_id |-> args.channel_id]
    [] name = "send_thread_message" -> [message_id |-> call.val, thread_id |-> args.thread_id]
    [] name = "thread_analysis" -> [thread_id |-> call.channel]
    [] name = "list_threads" -> [threads |-> "threads"]
    [] name = "archive_thread" -> [thread_id |-> call.channel, archived |-> TRUE]
    [] name = "kick_user" -> [kicked |-> call.member, username |-> Username(call.member)]
    [] name = "ban_user" -> [banned |-> call.member, username |-> Username(call.member)]
    [] name = "unban_user" -> [unbanned |-> args.user_id]
    [] OTHER ->
         [timed_out |-> call.member, username |-> Username(call.member),
          duration_minutes |-> args.duration_minutes[1],
          until |-> S.now + Ms(args.duration_minutes[1])]

\* the handler runs on from step to step until it awaits, throws or returns
RECURSIVE Advance(_, _)
Advance(S, c) ==
  LET call == S.calls[c] IN
  IF call.pc # "run" THEN S
  ELSE IF call.stage > Len(Script(call.name, call.args)) THEN Return(S, c, SingleResult(S, c))
  ELSE Advance(StartStage(S, c), c)

\* a single-operation case of handleTool's second switch, entered
RunSingle(S, c) == Advance([S EXCEPT !.calls[c].pc = "run", !.calls[c].stage = 1], c)

\* ... and resumed by the answer to the library call it awaits
OnReply(S, c, out) == Advance(ResumeStage(S, c, out), c)

\* a slip: the channel is left to the items, the fan-out starts without it
PreResolveInside(S, c) == FanOut(S, c)

\* ------------------------------------------------------------ handleTool
\* mass_delete_message: `await resolveTextChannel(guild, args.channel_id)` up to its
\* first await, the fan-out following at once when the channel is cached
PreResolve(S, c) ==
  LET call == S.calls[c]
      r == resolveTextChannelStart(S.plat, call.guild, call.args.channel_id) IN
  CASE r = "found" -> FanOut([S EXCEPT !.calls[c].channel = call.args.channel_id], c)
    [] r = "nontext" -> Throw(S, c, ErrNotTextBased)
    [] OTHER -> [S EXCEPT !.calls[c].pc = "resolving", !.calls[c].pre = [st |-> "fetch", n |-> 1]]

\* ... and resumed by the answer to its remote call
OnPreAnswer(S, c, out) ==
  LET call == S.calls[c]
      r == resolveTextChannelResume(call.pre.st, out) IN
  CASE r.st = "found" ->
         FanOut([S EXCEPT !.calls[c].channel = call.args.channel_id,
                          !.calls[c].pre.st = "found"], c)
    [] r.st = "threads" ->
         [S EXCEPT !.calls[c].pre = [st |-> "threads", n |-> call.pre.n + 1]]
    [] OTHER -> Throw([S EXCEPT !.calls[c].pre.st = "rejected"], c, r.err)

\* a slip: the guild a call has used is kept as the default
GuildScopedRemembering(S, c) ==
  LET name == S.calls[c].name
      S1 == saveConfig(S, [loadConfig(S.file) EXCEPT !.default_guild_id = S.calls[c].guild],
                       name) IN
  CASE name = "mass_delete_message" -> PreResolve(S1, c)
    [] name \in BatchTools -> FanOut(S1, c)
    [] name \in SingleTools -> RunSingle(S1, c)
    [] OTHER -> Throw(S1, c, ErrUnknownTool)

\* the second switch of handleTool, entered with the guild resolved
GuildScoped(S, c) ==
  LET name == S.calls[c].name IN
  CASE name = "mass_delete_message" -> PreResolve(S, c)
    [] name \in BatchTools -> FanOut(S, c)
    [] name \in SingleTools -> RunSingle(S, c)
    [] OTHER -> Throw(S, c, ErrUnknownTool)

\* handleTool after `await requireDiscord()` has returned
handleTool(S, c) ==
  LET call == S.calls[c] IN
  CASE call.name = "set_guild" -> set_guild(S, c)
    [] call.name = "get_guild" -> get_guild(S, c)
    [] call.name = "list_guilds" -> list_guilds(S, c)
    [] OTHER ->
         LET r == resolveGuildId(S, call.args) IN
         IF ~r.ok THEN Throw(S, c, r.err)
         ELSE IF ~getGuild(r.value).ok THEN Throw(S, c, ErrGuildNotFound)
         ELSE GuildScoped([S EXCEPT !.calls[c].guild = r.value], c)

\* history: what the caller of c could know when its handler started, and what
\* the callers have been told once it has run
Capture(S, c) ==
  [S EXCEPT !.calls[c].obs =
     [lastSet |-> S.hist.lastSet, rebooted |-> S.hist.rebooted,
      prev |-> IF S.calls[c].name \in DOMAIN S.hist.seen
               THEN S.hist.seen[S.calls[c].name] ELSE <<>>]]

NothingSeen == [get_guild |-> <<>>, list_guilds |-> <<>>]

Observe(S, c) ==
  LET call == S.calls[c] IN
  CASE Succeeded(call) /\ call.name = "set_guild" ->
         [S EXCEPT !.hist.lastSet = ResultOf(call).default_guild_id,
                   !.hist.rebooted = FALSE, !.hist.seen = NothingSeen]
    [] Succeeded(call) /\ call.name \in DOMAIN S.hist.seen ->
         [S EXCEPT !.hist.seen[call.name] = <<ResultOf(call)>>]
    [] OTHER -> S

\* a slip: the rejection is caught and the handler runs on
requireDiscordForgiving(ready) == IF ready = "pending" THEN "wait" ELSE "return"

\* a slip: the handler does not wait for a pending connection
requireDiscordEager(ready) == IF ready = "rejected" THEN "throw" ELSE "return"

\* `await discordReady`: wait while the promise is pending, throw once it has
\* rejected, return once it has resolved
requireDiscord(ready) ==
  CASE ready = "pending" -> "wait"
    [] ready = "rejected" -> "throw"
    [] OTHER -> "return"

\* requireDiscord returns or throws, and handleTool runs on
Enter(S, c, ready) ==
  CASE requireDiscord(ready) = "wait" -> [S EXCEPT !.calls[c].parked = TRUE]
    [] requireDiscord(ready) = "throw" -> Throw(S, c, ErrLogin)
    [] OTHER -> Observe(handleTool(Capture(S, c), c), c)

RECURSIVE EnterAll(_, _, _)
EnterAll(S, q, ready) ==
  IF q = <<>> THEN S ELSE EnterAll(Enter(S, Head(q), ready), Tail(q), ready)

Commit(S) ==
  \E T \in {S} :
    /\ file' = T.file
    /\ calls' = T.calls
    /\ hist' = T.hist
    /\ plat' = T.plat
    /\ nextId' = T.nextId

\* ------------------------------------------------------------ inputs
\* tokens a caller may pass as channel_id, user_id, role_id and limit
ChannelTokens == {"k1", "k2", "n1"}
UserTokens == {"k1", "d16", "d17", "d20", "d21", "x17", "ann", "ANN", "bob", "Bob", "cy", "zed"}
RoleTokens == {"k1", "n1", "d16", "d17", "mods", "Mods", "zed"}
Limits == {<<>>} \cup {<<n>> : n \in {0, -1, 1, 20, 100, 101}}

ItemLists(keys) == UNION {[1..n -> keys] : n \in 0..MaxItems}

ArgsFor(name) ==
  CASE name = "set_guild" -> {[NoArgs EXCEPT !.guild_id = g] : g \in Guilds}
    [] name \in {"get_guild", "list_guilds"} -> {NoArgs}
    [] name \in CreateTools ->
         {[NoArgs EXCEPT !.guild_id = g, !.items = l] :
            g \in {None, "g1"}, l \in ItemLists({"a", "b"})}
    [] name = "mass_delete_message" ->
         {[NoArgs EXCEPT !.guild_id = g, !.channel_id = ch, !.items = l] :
            g \in {None, "g1"}, ch \in Keys, l \in ItemLists(Keys)}
    [] name = "mass_time_out" ->
         {[NoArgs EXCEPT !.guild_id = g, !.items = l] :
            g \in {None, "g1"}, l \in ItemLists(Keys \cup Names)}
    [] name \in BatchTools ->
         {[NoArgs EXCEPT !.guild_id = g, !.items = l] :
            g \in {None, "g1"}, l \in ItemLists(Keys)}
    [] name \in CreateOne \cup {"server_analysis"} ->
         {[NoArgs EXCEPT !.guild_id = g] : g \in {None, "g1"}}
    [] name = "delete" ->
         {[NoArgs EXCEPT !.guild_id = g, !.channel_id = ch] :
            g \in {None, "g1"}, ch \in ChannelTokens}
    [] name = "create_thread" ->
         {[NoArgs EXCEPT !.guild_id = g, !.channel_id = ch, !.message_id = m] :
            g \in {None, "g1"}, ch \in ChannelTokens, m \in {None, "k1"}}
    [] name = "delete_role" ->
         {[NoArgs EXCEPT !.guild_id = g, !.role_id = r] : g \in {None, "g1"}, r \in Keys}
    [] name = "get_messages" ->
         {[NoArgs EXCEPT !.guild_id = g, !.channel_id = ch, !.limit = l] :
            g \in {None, "g1"}, ch \in ChannelTokens, l \in Limits}
    [] name = "channel_analysis" ->
         {[NoArgs EXCEPT !.guild_id = g, !.channel_id = ch, !.limit = l] :
            g \in {None, "g1"}, ch \in Keys, l \in {<<>>, <<101>>}}
    [] name = "send_message" ->
         {[NoArgs EXCEPT !.guild_id = g, !.channel_id = ch] :
            g \in {None, "g1"}, ch \in ChannelTokens}
    [] name \in MessageTools ->
         {[NoArgs EXCEPT !.guild_id = g, !.channel_id = ch, !.message_id = m] :
            g \in {None, "g1"}, ch \in Keys, m \in Keys}
    [] name \in RoleMemberTools ->
         {[NoArgs EXCEPT !.guild_id = g, !.user_id = u, !.role_id = r] :
            g \in {None, "g1"}, u \in UserTokens, r \in RoleTokens}
    [] name = "user_analysis" ->
         {[NoArgs EXCEPT !.guild_id = g, !.user_id = u, !.limit = l] :
            g \in {None, "g1"}, u \in {"k1", "ann", "zed"}, l \in {<<>>, <<250>>}}
    [] name \in ThreadTools \cup {"thread_analysis"} ->
         {[NoArgs EXCEPT !.guild_id = g, !.thread_id = t] :
            g \in {None, "g1"}, t \in {"t1", "k1", "n1"}}
    [] name = "list_threads" ->
         {[NoArgs EXCEPT !.guild_id = g, !.channel_id = ch, !.include_archived = a] :
            g \in {None, "g1"}, ch \in {None, "k1", "k2"}, a \in BOOLEAN}
    [] name \in {"kick_user", "ban_user"} ->
         {[NoArgs EXCEPT !.guild_id = g, !.user_id = u] : g \in {None, "g1"}, u \in UserTokens}
    [] name = "unban_user" ->
         {[NoArgs EXCEPT !.guild_id = g, !.user_id = "k1"] : g \in {None, "g1"}}
    [] name = "time_out_user" ->
         {[NoArgs EXCEPT !.guild_id = g, !.user_id = u, !.duration_minutes = d] :
            g \in {None, "g1"}, u \in {"k1", "ann", "zed"}, d \in {<<1>>, <<10>>}}
    [] OTHER -> {[NoArgs EXCEPT !.guild_id = g] : g \in {None} \cup Guilds}

\* ------------------------------------------------------------ actions
\* a CallToolRequest arrives: the handler runs to its first outstanding await
Receive(c, name, args) ==
  /\ alive
  /\ nreq < MaxRequests
  /\ calls[c].pc \in {"idle", "done"}
  /\ nreq' = nreq + 1
  /\ LET S == Enter([Cur EXCEPT !.calls[c] = [NewCall(name, args) EXCEPT !.t0 = now]],
                     c, discordReady) IN
     /\ Commit(S)
     /\ waiting' = IF S.calls[c].pc = "awaitReady" THEN Append(waiting, c) ELSE waiting
  /\ UNCHANGED <<alive, discordReady, guildCache, now>>

\* the gateway's "ready" event: discordReady resolves, every parked call runs on
Ready ==
  /\ alive
  /\ discordReady = "pending"
  /\ discordReady' = "fulfilled"
  /\ Commit(EnterAll(Cur, waiting, "fulfilled"))
  /\ waiting' = <<>>
  /\ UNCHANGED <<alive, guildCache, nreq, now>>

\* login is rejected, or an "error" event comes first: discordReady rejects.  With a
\* call parked on it the rejection is handled; with none it is an unhandled rejection,
\* which ends the process or not depending on the node version
LoginFail(dies) ==
  /\ alive
  /\ discordReady = "pending"
  /\ discordReady' = "rejected"
  /\ Commit(EnterAll(Cur, waiting, "rejected"))
  /\ waiting' = <<>>
  /\ alive' = IF waiting = <<>> /\ dies THEN FALSE ELSE TRUE
  /\ UNCHANGED <<guildCache, nreq, now>>

\* a slip: the default lives in the process only, a new process starts without one
RestartFresh ==
  /\ alive' = TRUE
  /\ discordReady' = "pending"
  /\ calls' = [c \in Calls |-> IdleCall]
  /\ waiting' = <<>>
  /\ plat' = [plat EXCEPT !.memberCache = {}, !.msgCache = {}]
  /\ hist' = [hist EXCEPT !.rebooted = (hist.lastSet # None)]
  /\ file' = MissingFile
  /\ UNCHANGED <<guildCache, nextId, nreq, now>>

\* the process ends (if it still runs) and is started again: the calls in progress
\* and the library's caches are gone, the config file is not
Restart ==
  /\ alive' = TRUE
  /\ discordReady' = "pending"
  /\ calls' = [c \in Calls |-> IdleCall]
  /\ waiting' = <<>>
  /\ plat' = [plat EXCEPT !.memberCache = {}, !.msgCache = {}]
  /\ hist' = [hist EXCEPT !.rebooted = (hist.lastSet # None)]
  /\ UNCHANGED <<file, guildCache, nextId, nreq, now>>

\* a gateway event changes discord.guilds.cache: the bot joins or leaves g, or
\* g's member count changes
GuildEvent(g, v) ==
  /\ alive
  /\ discordReady = "fulfilled"
  /\ guildCache[g] # v
  /\ guildCache' = [guildCache EXCEPT ![g] = v]
  /\ hist' = [hist EXCEPT !.seen = NothingSeen]
  /\ UNCHANGED <<alive, discordReady, file, plat, nextId, calls, waiting, nreq, now>>

\* the platform answers the remote call item i of call c is waiting on
Answer(c, i, out) ==
  /\ alive
  /\ calls[c].pc = "fanout"
  /\ i \in 1..Len(calls[c].items)
  /\ out \in Answers(Cur, c, i)
  /\ Commit(OnAnswer(Cur, c, i, out))
  /\ UNCHANGED <<alive, discordReady, guildCache, waiting, nreq, now>>

\* the platform answers the remote call of mass_delete_message's channel lookup
PreAnswer(c, out) ==
  /\ alive
  /\ calls[c].pc = "resolving"
  /\ out \in (IF calls[c].pre.st = "fetch"
              THEN {"text", "nontext", "fail"} \cup Elsewhere(calls[c].guild)
              ELSE {"text", "missing", "fail"})
  /\ Commit(OnPreAnswer(Cur, c, out))
  /\ UNCHANGED <<alive, discordReady, guildCache, waiting, nreq, now>>

\* the platform answers the library call that the single-operation handler of c awaits
Reply(c, out) ==
  /\ alive
  /\ calls[c].pc = "await"
  /\ out \in SingleAnswers(Cur, c)
  /\ Commit(OnReply(Cur, c, out))
  /\ UNCHANGED <<alive, discordReady, guildCache, waiting, nreq, now>>

\* time passes
Tick ==
  /\ now < MaxClock
  /\ now' = now + 1
  /\ UNCHANGED <<alive, discordReady, file, guildCache, plat, nextId, calls, waiting, nreq, hist>>

AllAnswers == {"ok", "fail", "text", "nontext", "missing", "thread", "other", "elsewhere"}

ReceiveAny(slots, tools, maxlen) ==
  \E c \in slots, name \in tools :
    \E args \in {a \in ArgsFor(name) : Len(a.items) <= maxlen} : Receive(c, name, args)

ItemAnswer == \E c \in Calls, i \in 1..MaxItems, out \in AllAnswers : Answer(c, i, out)
LookupAnswer == \E c \in Calls, out \in AllAnswers : PreAnswer(c, out)
SingleAnswer == \E c \in Calls, out \in AllAnswers : Reply(c, out)
\* g1 is a guild the bot stays in; g2 is one it joins and leaves and whose member
\* count changes
GuildEvents == \E v \in MemberCounts \cup {NotInGuild} : GuildEvent("g2", v)
LoginFails == \E dies \in BOOLEAN : LoginFail(dies)

\* ------------------------------------------------------------ specifications
ObjectFile(g) == [kind |-> "object", default_guild_id |-> g, extra |-> FALSE]

InitPlat ==
  [channels |-> {[guild |-> g, id |-> "k1", type |-> "text"] : g \in Guilds} \cup
                {[guild |-> "g1", id |-> "k2", type |-> "category"],
                 [guild |-> "g1", id |-> "k3", type |-> "text"],
                 [guild |-> "g1", id |-> "t1", type |-> "thread"]},
   roles |-> {[guild |-> g, id |-> "k1", name |-> "d17"] : g \in Guilds} \cup
             {[guild |-> g, id |-> "k2", name |-> "Mods"] : g \in Guilds},
   msgs |-> {[chan |-> "k1", id |-> "k1"]},
   bans |-> {}, timeouts |-> {}, memberCache |-> {}, msgCache |-> {}, effects |-> <<>>]

InitWith(files, caches) ==
  /\ alive = TRUE
  /\ discordReady = "pending"
  /\ file \in files
  /\ guildCache \in caches
  /\ plat = InitPlat
  /\ nextId = 0
  /\ calls = [c \in Calls |-> IdleCall]
  /\ waiting = <<>>
  /\ nreq = 0
  /\ now = 0
  /\ hist = [lastSet |-> file.default_guild_id, rebooted |-> (file.default_guild_id # None),
             seen |-> NothingSeen, lastWriter |-> None]

\* the process starts with the config file an earlier run left, or with none
Init ==
  InitWith({MissingFile} \cup {ObjectFile(g) : g \in Guilds},
           {gc \in [Guilds -> {10, NotInGuild}] : gc["g1"] # NotInGuild})

InitBatch ==
  InitWith({MissingFile, ObjectFile("g1")}, {[g \in Guilds |-> IF g = "g1" THEN 10 ELSE NotInGuild]})

\* the guild tools, an unknown tool and one guild-scoped tool, two calls at a time
Next ==
  \/ ReceiveAny(Calls, GuildTools \cup UnknownTools \cup {"mass_ban"}, MaxBanned)
  \/ Ready
  \/ LoginFails
  \/ Restart
  \/ GuildEvents
  \/ ItemAnswer

Spec == Init /\ [][Next]_vars

\* every batch tool, one call after the other
ReceiveBatch == nreq < MaxBatchCalls /\ ReceiveAny({"c1"}, BatchTools, MaxItems)

NextBatch ==
  \/ ReceiveBatch
  \/ Ready
  \/ LoginFails
  \/ Restart
  \/ ItemAnswer
  \/ LookupAnswer

SpecBatch == InitBatch /\ [][NextBatch]_vars

\* ------------------------------------------------------------ batch calls
\* one batch call, and every remote call answered in the end: the hypothesis under
\* which a batch call returns
ReceiveFirst == nreq = 0 /\ ReceiveAny({"c1"}, BatchTools, MaxItems)

NextBatchOnce ==
  \/ ReceiveFirst
  \/ Ready
  \/ LoginFails
  \/ Restart
  \/ ItemAnswer
  \/ LookupAnswer

SpecBatchFair ==
  InitBatch /\ [][NextBatchOnce]_vars /\ WF_vars(ItemAnswer \/ LookupAnswer)

\* every guild-scoped tool and an unknown one, one call, the clock running
InitSingle ==
  InitWith({MissingFile, GarbageFile, ObjectFile(None), ObjectFile("g1")},
           {[g \in Guilds |-> IF g = "g1" THEN 10 ELSE NotInGuild]})

ReceiveOne ==
  nreq = 0 /\ ReceiveAny({"c1"}, SingleTools \cup BatchTools \cup UnknownTools, 1)

NextSingle ==
  \/ ReceiveOne
  \/ Ready
  \/ LoginFails
  \/ Restart
  \/ Tick
  \/ SingleAnswer
  \/ ItemAnswer
  \/ LookupAnswer

SpecSingle == InitSingle /\ [][NextSingle]_vars

\* one call of any tool, known or not, the clock running
AllTools == GuildTools \cup SingleTools \cup BatchTools \cup UnknownTools

ReceiveTool == nreq = 0 /\ ReceiveAny({"c1"}, AllTools, 1)

NextAll ==
  \/ ReceiveTool
  \/ Ready
  \/ LoginFails
  \/ Restart
  \/ Tick
  \/ SingleAnswer
  \/ ItemAnswer
  \/ LookupAnswer

SpecAll == InitSingle /\ [][NextAll]_vars

\* the bot in two guilds: a tool that resolves a channel, a batch tool and set_guild,
\* two calls at a time
InitGuilds == InitWith({MissingFile, ObjectFile("g1")}, {[g \in Guilds |-> 10]})

ReceiveGuilds ==
  nreq < MaxBatchCalls /\ ReceiveAny(Calls, {"set_guild", "send_message", "mass_ban"}, 1)

NextGuilds ==
  \/ ReceiveGuilds
  \/ Ready
  \/ Restart
  \/ SingleAnswer
  \/ ItemAnswer

SpecGuilds == InitGuilds /\ [][NextGuilds]_vars

\* the tools that read the config file, one call after the other, over every content
\* the file may have
OddFile(kind) == [kind |-> kind, default_guild_id |-> None, extra |-> FALSE]

InitConfig ==
  InitWith({MissingFile, GarbageFile, OddFile("null"), OddFile("array"), OddFile("scalar")}
             \cup {[ObjectFile(g) EXCEPT !.extra = x] : g \in {None} \cup Guilds, x \in BOOLEAN},
           {[g \in Guilds |-> IF g = "g1" THEN 10 ELSE NotInGuild]})

ReceiveConfig == ReceiveAny({"c1"}, GuildTools \cup {"mass_ban"}, 0)

NextConfig ==
  \/ ReceiveConfig
  \/ Ready
  \/ LoginFails
  \/ Restart

SpecConfig == InitConfig /\ [][NextConfig]_vars

BatchDone(call) == call.pc = "done" /\ call.name \in BatchTools /\ call.guild # None
ChannelResolved(call) == call.name = "mass_delete_message" => call.channel # None
N(call) == Len(call.args.items)

ListEchoesInput(call) ==
  /\ ~call.response.isError
  /\ Len(ResultOf(call)) = N(call)
  /\ \A i \in 1..N(call) : ResultOf(call)[i][KeyField(call.name)] = call.args.items[i]

\* C1, as stated: every batch call on a resolvable guild returns a list of N outcomes,
\* outcome[i] echoing the key field of input[i]
C1_EveryBatchCallReturnsList ==
  \A c \in Calls : BatchDone(calls[c]) => ListEchoesInput(calls[c])

\* C1, amended: every batch call on a resolvable guild and, for mass_delete_message,
\* on a channel that resolves to a text channel, returns a list of N outcomes, with
\* outcome[i] echoing the key field of input[i], whatever the order of completion
C1_ListEchoesInput ==
  \A c \in Calls :
    BatchDone(calls[c]) /\ ChannelResolved(calls[c]) => ListEchoesInput(calls[c])

C1_Witness ==
  \E c \in Calls :
    /\ BatchDone(calls[c]) /\ ListEchoesInput(calls[c])
    /\ calls[c].order = <<2, 1>>
    /\ calls[c].args.items[1] # calls[c].args.items[2]

\* C2: outcome[i] is "failed", with the failure's message, exactly when the operation
\* of input[i] was rejected; otherwise it has the tool's success status and, for the
\* create tools, the id the platform handed out; so k rejections give k "failed"
C2_FailedIffRejected ==
  \A c \in Calls :
    BatchDone(calls[c]) /\ Succeeded(calls[c]) =>
      LET call == calls[c]  res == ResultOf(call) IN
      /\ \A i \in 1..N(call) :
           /\ (call.items[i].st = "rejected") <=> (res[i].status = "failed")
           /\ call.items[i].st = "rejected" =>
                res[i].error = call.items[i].err /\ res[i].error # None
           /\ call.items[i].st = "fulfilled" =>
                /\ res[i].status = SuccessStatus(call.name)
                /\ call.name \in CreateTools =>
                     \E n \in 1..nextId : res[i].id = IdNames[n]
      /\ Cardinality({i \in 1..N(call) : res[i].status = "failed"})
           = Cardinality({i \in 1..N(call) : call.items[i].st = "rejected"})

C2_Witness ==
  \E c \in Calls :
    /\ Succeeded(calls[c]) /\ calls[c].name = "mass_channels"
    /\ calls[c].args.items = <<"a", "b">>
    /\ ResultOf(calls[c])[1].status = "created"
    /\ ResultOf(calls[c])[2].status = "failed"

\* the effect of item i of the call is part of the platform state P
EffectPresent(P, call, i) ==
  LET k == call.args.items[i]  it == call.items[i]  g == call.guild IN
  CASE call.name = "mass_create_role" -> [guild |-> g, id |-> it.val, name |-> k] \in P.roles
    [] call.name \in CreateTools ->
         [guild |-> g, id |-> it.val, type |-> ChannelTypeOf(call.name)] \in P.channels
    [] call.name = "mass_delete" -> ChannelsIn(P, g, k) = {}
    [] call.name = "mass_delete_role" -> RolesIn(P, g, k) = {}
    [] call.name = "mass_send_message" -> [chan |-> k, id |-> it.val] \in P.msgs
    [] call.name = "mass_delete_message" -> [chan |-> call.channel, id |-> k] \notin P.msgs
    [] call.name = "mass_ban" -> <<g, k>> \in P.bans
    [] OTHER -> \E u \in Keys : <<g, u>> \in P.timeouts /\ Username(u) = it.val

LocalErrors == {ErrChannelNotFound, ErrRoleNotFound, ErrNotTextBased}

C3_EffectsStay ==
  \A c \in Calls :
    LET call == calls[c] IN
    call.name \in BatchTools /\ call.guild # None /\ ChannelResolved(call)
      /\ call.pc \in {"fanout", "done"} =>
        /\ Len(call.items) = N(call)
        /\ \A i \in 1..N(call) :
             /\ call.items[i].n >= 1 \/ (call.items[i].st = "rejected" /\ call.items[i].err \in LocalErrors)
             /\ call.items[i].st = "fulfilled" => EffectPresent(plat, call, i)

C3_NoCancel ==
  \A c \in Calls :
    calls[c].pc = "fanout" /\ calls'[c].pc \in {"fanout", "done"} =>
      \A i, j \in 1..Len(calls[c].items) :
        i # j /\ calls'[c].items[i] # calls[c].items[i] => calls'[c].items[j] = calls[c].items[j]

\* C3: a failed item neither keeps another item's operation from being issued, nor
\* cancels it in flight, nor undoes its effect: every item is started, one answer
\* moves one item only, and the platform holds the effect of every item that succeeded
C3_FailureIsolated == []C3_EffectsStay /\ [][C3_NoCancel]_vars

C3_Witness ==
  \E c \in Calls :
    /\ Succeeded(calls[c]) /\ calls[c].name = "mass_create_role"
    /\ calls[c].order = <<1, 2>>
    /\ calls[c].items[1].st = "rejected"
    /\ calls[c].items[2].st = "fulfilled"
    /\ EffectPresent(plat, calls[c], 2)

C4_AllSettled ==
  \A c \in Calls :
    calls[c].pc = "done" /\ calls[c].name \in BatchTools =>
      /\ \A i \in 1..Len(calls[c].items) : Settled(calls[c].items[i])
      /\ Succeeded(calls[c]) => Len(calls[c].items) = N(calls[c])

C4_Returns ==
  \A c \in Calls : (calls[c].pc \in {"resolving", "fanout"}) ~> (calls[c].pc \in {"done", "idle"})

\* C4: a batch call has returned only when each of its N operations has settled, a
\* first failure does not end it, and it returns once they all have settled
C4_ReturnsWhenAllSettled == []C4_AllSettled /\ C4_Returns

C4_Witness ==
  \E c \in Calls :
    /\ Succeeded(calls[c]) /\ calls[c].name = "mass_time_out"
    /\ Len(calls[c].order) = 2
    /\ calls[c].items[calls[c].order[1]].st = "rejected"
    /\ calls[c].items[calls[c].order[2]].st = "fulfilled"

RemoteCalls(call) ==
  LET RECURSIVE Sum(_)
      Sum(i) == IF i = 0 THEN 0 ELSE call.items[i].n + Sum(i - 1)
  IN Sum(Len(call.items)) + call.pre.n

\* C5, as stated: a batch call of size N issues N remote calls, one per item, each
\* launched before any is awaited
C5_OneRemoteCallPerItem ==
  \A c \in Calls :
    calls[c].name \in BatchTools /\ calls[c].pc \in {"fanout", "done"} =>
      /\ \A i \in 1..Len(calls[c].items) : calls[c].items[i].n = 1
      /\ RemoteCalls(calls[c]) = N(calls[c])

OneCallTools == CreateTools \cup {"mass_ban"}
MaxRemotePerItem(name) ==
  CASE name \in OneCallTools \cup DeleteTools -> 1
    [] name = "mass_send_message" -> 3
    [] OTHER -> 2

\* C5, amended: a batch call of size N starts its N per-item operations together,
\* before it awaits any of them; mass_channels, mass_categories, mass_voice_channels,
\* mass_create_role and mass_ban issue one remote call per item, mass_delete and
\* mass_delete_role one or (for an id that is not cached) none, mass_delete_message and
\* mass_time_out up to two and mass_send_message up to three per item
C5_AllStartedTogether ==
  \A c \in Calls :
    LET call == calls[c] IN
    (call.name \in BatchTools /\ call.pc = "fanout") \/ (BatchDone(call) /\ ChannelResolved(call)) =>
      /\ Len(call.items) = N(call)
      /\ \A i \in 1..N(call) :
           /\ call.items[i].st # "pending"
           /\ call.items[i].n <= MaxRemotePerItem(call.name)
           /\ call.name \in OneCallTools => call.items[i].n = 1
      /\ call.name \in OneCallTools => RemoteCalls(call) = N(call)

C5_Witness ==
  \E c \in Calls :
    /\ calls[c].pc = "fanout" /\ calls[c].name = "mass_send_message"
    /\ Len(calls[c].items) = 2
    /\ calls[c].items[1].st = "threads" /\ calls[c].items[1].n = 2
    /\ calls[c].items[2].st = "mutate"

\* ------------------------------------------------------------ connection and guild
\* C6: no handler runs before the connection is ready: while discordReady is pending
\* every call received is parked and untouched, a call is parked only while it is
\* pending, and after a rejection no call has got further than the login error
C6_NoHandlerBeforeReady ==
  /\ \A c \in Calls :
       calls[c].pc = "awaitReady" =>
         discordReady = "pending" /\ \E n \in 1..Len(waiting) : waiting[n] = c
  /\ discordReady = "pending" =>
       \A c \in Calls :
         /\ calls[c].pc \in {"idle", "awaitReady"}
         /\ calls[c].guild = None /\ calls[c].items = <<>> /\ calls[c].pre.n = 0
         /\ calls[c].response = NoResponse /\ calls[c].obs = NoObs
  /\ discordReady = "rejected" =>
       \A c \in Calls :
         calls[c].pc = "idle" \/ (calls[c].pc = "done" /\ calls[c].response = ThrowResponse(ErrLogin))

C6_Witness ==
  \E c, d \in Calls :
    /\ Succeeded(calls[c]) /\ calls[c].parked
    /\ Succeeded(calls[d]) /\ ~calls[d].parked

\* C7, as stated: with the connection up, a call of a tool name that is not
\* registered fails with the unknown-tool error, whatever its arguments and the default
C7_UnknownToolError ==
  \A c \in Calls :
    calls[c].pc = "done" /\ calls[c].name \in UnknownTools
      /\ calls[c].response # ThrowResponse(ErrLogin) =>
        calls[c].response = ThrowResponse(ErrUnknownTool)

C10_ReadOnlyIdempotent ==
  /\ hist.lastWriter \in {None, "set_guild"}
  /\ \A c \in Calls :
       Succeeded(calls[c]) /\ calls[c].name \in {"get_guild", "list_guilds"} =>
         /\ calls[c].obs.prev # <<>> => ResultOf(calls[c]) = calls[c].obs.prev[1]
         /\ calls[c].items = <<>> /\ calls[c].pre.n = 0 /\ calls[c].guild = None

C10_Witness ==
  \E c, d \in Calls :
    /\ c # d
    /\ Succeeded(calls[c]) /\ calls[c].name = "get_guild"
    /\ Succeeded(calls[d]) /\ calls[d].name = "get_guild"
    /\ calls[c].obs.prev = <<ResultOf(calls[d])>>
    /\ ResultOf(calls[c]).default_guild_id # None

\* ------------------------------------------------------------ single calls
Started(call) == call.pc \notin {"idle", "awaitReady"}
GuildScopedTools == SingleTools \cup BatchTools
NoDefaultPersisted == file.kind \in {"missing", "garbage", "object"} /\ file.default_guild_id = None
NoRemoteCall(call) == call.log = <<>> /\ call.items = <<>> /\ call.pre.n = 0

C12_UntilIsCallTimePlusMs ==
  \A c \in Calls :
    Succeeded(calls[c]) /\ calls[c].name = "time_out_user" =>
      LET call == calls[c]  ms == call.args.duration_minutes[1] * 60000
          applied == plat.effects[Len(plat.effects)] IN
      /\ ResultOf(call).until = call.t0 + ms
      /\ applied.op = "member.timeout" /\ applied.target = call.member /\ applied.arg = ms

\* C13: a call in which handleTool throws is answered with isError = true and the one
\* text "Error: <message>", a call in which it returns with no isError and the JSON of
\* the result; every call that ends is answered
C13_ThrowsBecomeErrorResponses ==
  \A c \in Calls :
    calls[c].pc = "done" =>
      LET exit == calls[c].exit  response == calls[c].response IN
      /\ exit # <<>>
      /\ exit[1] = "threw" =>
           response.isError /\ response.text = <<"Error: ", exit[2]>>
      /\ exit[1] = "returned" =>
           ~response.isError /\ response.text = <<"json", exit[2]>>

C13_Witness ==
  \E c \in Calls :
    /\ calls[c].pc = "done" /\ calls[c].name = "kick_user"
    /\ calls[c].exit = <<"threw", ErrPlatform>>
    /\ calls[c].log[Len(calls[c].log)].kind = "mutation"
    /\ calls[c].response.isError

\* the limits a get_messages call has passed to channel.messages.fetch
PassedLimits(call) ==
  {call.log[i].arg : i \in {j \in DOMAIN call.log : call.log[j].op = "messages.fetch"}}

\* C14: the limit get_messages passes to the platform is 20 when `limit` is omitted,
\* is never above 100, and is min(limit, 100) for every positive `limit`
C14_GetMessagesLimit ==
  \A c \in Calls :
    calls[c].name = "get_messages" =>
      \A passed \in PassedLimits(calls[c]) :
        LET limit == calls[c].args.limit IN
        /\ limit = <<>> => passed = 20
        /\ passed <= 100
        /\ limit # <<>> /\ limit[1] > 0 =>
             passed = (IF limit[1] <= 100 THEN limit[1] ELSE 100)

C14_Witness ==
  \E c \in Calls :
    /\ Succeeded(calls[c]) /\ calls[c].name = "get_messages"
    /\ calls[c].args.limit = <<101>>
    /\ PassedLimits(calls[c]) = {100}

\* ------------------------------------------------------------ config file
\* C15: whatever the config file holds, a call that reads it does not fail because of
\* it, and for a file that holds no config record loadConfig returns the empty config
C15_LoadConfigFailsSoft ==
  \A c \in Calls :
    calls[c].pc = "done" /\ calls[c].exit[1] = "threw" =>
      /\ calls[c].exit[2] # ErrTypeError
      /\ file.kind # "object" => loadConfig(file) = EmptyConfig

\* the handler of c has run to its end in this step, and it was a successful set_guild
SetGuildDone(c) ==
  /\ calls[c].pc = "awaitReady" \/ nreq' # nreq
  /\ calls'[c].name = "set_guild"
  /\ Succeeded(calls'[c])

\* C16 as stated: after a successful set_guild(X) the file holds {default_guild_id: X}
\* and nothing else
C16_OnlyDefaultPersisted ==
  \A c \in Calls :
    Succeeded(calls[c]) /\ calls[c].name = "set_guild" =>
      file = ObjectFile(calls[c].args.guild_id)

\* C16, amended: a successful set_guild(X) writes the whole file anew, as the JSON of
\* the value loadConfig returned with default_guild_id set to X; the other fields of
\* the record in the file are kept
C16_SetGuildKeepsOtherFields ==
  [][\A c \in Calls :
       SetGuildDone(c) =>
         LET X == calls'[c].args.guild_id IN
         /\ file' = JSONstringify([loadConfig(file) EXCEPT !.default_guild_id = X])
         /\ loadConfig(file).type = "object" =>
              file' = [kind |-> "object", default_guild_id |-> X, extra |-> file.extra]
         /\ file.kind = "object" => file'.extra = file.extra]_vars

C16_Witness ==
  \E c \in Calls :
    /\ Succeeded(calls[c]) /\ calls[c].name = "set_guild"
    /\ hist.lastWriter = "set_guild"
    /\ file = [kind |-> "object", default_guild_id |-> calls[c].args.guild_id, extra |-> TRUE]

\* ------------------------------------------------------------ resolvers
UsesStage(call, st) ==
  \E i \in DOMAIN Script(call.name, call.args) : Script(call.name, call.args)[i] = st
Ops(call) == {call.log[i].op : i \in DOMAIN call.log}
Threw(call, err) == call.exit # <<>> /\ call.exit[1] = "threw" /\ call.exit[2] = err
SameIgnoringCase(a, b) == toLowerCase(Text(a)) = toLowerCase(Text(b))

\* the token is 17 to 20 characters long, each a decimal digit
SeventeenToTwentyDigits(token) ==
  \E n \in 17..20 : Len(Text(token)) = n /\ \A i \in 1..n : Text(token)[i] \in Digits

\* the member has the name, in one of its three name fields, whatever the case
HasName(u, token) ==
  \E i \in 1..Len(Roster) :
    /\ Roster[i].id = u
    /\ \/ SameIgnoringCase(Roster[i].username, token)
       \/ SameIgnoringCase(Roster[i].displayName, token)
       \/ (Roster[i].globalName # None /\ SameIgnoringCase(Roster[i].globalName, token))

RolesNamed(g, token) == {r \in plat.roles : r.guild = g /\ SameIgnoringCase(r.name, token)}

\* C17: a token of 17 to 20 decimal digits is resolved as an identifier only, by
\* resolveMember and by resolveRole, even when a member or role has it as its name;
\* every other token is resolved by name only, whatever the case
C17_ShapeDecidesPath ==
  \A c \in Calls :
    LET call == calls[c]  u == call.args.user_id  r == call.args.role_id IN
    /\ UsesStage(call, "member") =>
         IF SeventeenToTwentyDigits(u)
         THEN /\ "members.fetch()" \notin Ops(call)
              /\ call.member \in {None, u}
              /\ ~Threw(call, ErrUserNotFound)
         ELSE /\ "members.fetch(id)" \notin Ops(call)
              /\ call.member # None => HasName(call.member, u)
    /\ UsesStage(call, "role") =>
         IF SeventeenToTwentyDigits(r)
         THEN /\ call.role \in {None, r}
              /\ Threw(call, ErrRoleNotFound) => RolesIn(plat, call.guild, r) = {}
         ELSE /\ call.role # None => call.role \in {x.id : x \in RolesNamed(call.guild, r)}
              /\ Threw(call, ErrRoleNotFound) => RolesNamed(call.guild, r) = {}

\* a name of 16 digits finds the member who bears it, while a role's name of 17
\* digits, taken for an identifier, finds nothing
C17_Witness ==
  \E c \in Calls :
    /\ calls[c].name = "assign_role"
    /\ calls[c].args.user_id = "d16" /\ calls[c].member = "k3"
    /\ calls[c].args.role_id = "d17" /\ RolesNamed("g1", "d17") # {}
    /\ Threw(calls[c], ErrRoleNotFound)

\* the roster members that bear the name in one of the three fields
Bearers(token) == {i \in 1..Len(Roster) : HasName(Roster[i].id, token)}

\* C18: for a token that is no identifier resolveMember first fetches all the members
\* of the guild, then takes the first member of the roster whose account name, display
\* name or global name is the token, whatever the case; it throws the not-found error
\* exactly when no member bears the name
C18_FirstBearerOfName ==
  \A c \in Calls :
    LET call == calls[c]  u == call.args.user_id IN
    UsesStage(call, "member") /\ ~SeventeenToTwentyDigits(u) /\ call.log # <<>> =>
      /\ call.log[1].op = "members.fetch()"
      /\ call.member # None =>
           /\ call.log[1].out = "ok"
           /\ \E i \in Bearers(u) : Roster[i].id = call.member /\ \A j \in Bearers(u) : i <= j
      /\ Threw(call, ErrUserNotFound) <=> (call.log[1].out = "ok" /\ Bearers(u) = {})

\* "ANN" is the global name of the third member and, but for the case, the account
\* name of the first, who is found
C18_Witness ==
  \E c \in Calls :
    /\ calls[c].name = "kick_user" /\ Succeeded(calls[c])
    /\ calls[c].args.user_id = "ANN" /\ Bearers("ANN") = {1, 3}
    /\ calls[c].member = "k1"

\* the outcomes of the lookups and library calls of a handler so far, in order
Outs(call) == [i \in DOMAIN call.log |-> call.log[i].out]
OpsInOrder(call) == [i \in DOMAIN call.log |-> call.log[i].op]
IsPrefix(s, t) == Len(s) <= Len(t) /\ \A i \in DOMAIN s : s[i] = t[i]
Sources == <<"channels.cache.get", "channels.fetch", "fetchActiveThreads">>
Lookups(call) == {i \in DOMAIN call.log : call.log[i].op \in {Sources[1], Sources[2], Sources[3]}}

\* C19: resolveTextChannel asks the cache, then discord.channels.fetch, then the active
\* threads, each only when the ones before gave no channel; it throws the not-found
\* error only when none of the three gave one, and the not-text-based error when the
\* channel found is not text-based.  resolveRole makes no library call.
C19_SourcesInOrder ==
  \A c \in Calls :
    LET call == calls[c]  n == Cardinality(Lookups(call)) IN
    /\ UsesStage(call, "textChannel") /\ call.log # <<>> =>
         /\ Lookups(call) = 1..n
         /\ IsPrefix(SubSeq(OpsInOrder(call), 1, n), Sources)
         /\ \A i \in 1..(n - 1) : call.log[i].out \in {"missing", "fail"}
         /\ Threw(call, ErrChannelOrThreadNotFound) =>
              n = 3 /\ SubSeq(Outs(call), 1, 3) = <<"missing", "fail", "missing">>
         /\ Threw(call, ErrNotTextBased) <=> call.log[n].out = "nontext"
         /\ call.channel # None => call.log[n].out = "text"
    /\ UsesStage(call, "role") =>
         /\ Ops(call) \subseteq {"members.fetch()", "members.fetch(id)", MutateOp(call.name)}
         /\ Threw(call, ErrRoleNotFound) =>
              Len(call.log) = 1 /\ call.log[1].out = "ok" /\ call.member # None

\* the channel is found among the active threads, after the cache and the fetch
C19_Witness ==
  \E c \in Calls :
    /\ calls[c].name = "send_message" /\ calls[c].channel = "n1"
    /\ Len(calls[c].log) >= 3
    /\ SubSeq(OpsInOrder(calls[c]), 1, 3) = Sources
    /\ SubSeq(Outs(calls[c]), 1, 3) = <<"missing", "fail", "text">>

\* ------------------------------------------------------------ one call per handler
\* the library calls a handler has made once its targets were resolved, and the
\* mutations among its calls
OwnCalls(call) ==
  {i \in DOMAIN call.log : call.log[i].step \in {"read", "readEach", "readArchived", "mutate"}}
Mutations(call) == {i \in DOMAIN call.log : call.log[i].kind = "mutation"}
Hit(out) == out \in {"ok", "text", "thread"}
ManyCallTools == {"user_analysis", "list_threads"}
FetchesArchived(call) ==
  /\ call.args.include_archived /\ call.args.channel_id # None
  /\ \E ch \in ChannelsIn(plat, call.guild, call.args.channel_id) : ch.type = "text"
Objects(P) == <<P.channels, P.roles, P.msgs, P.bans, P.timeouts>>

\* C20 as stated: a handler that has resolved its targets makes exactly one library
\* call before it returns
C20_ExactlyOneCall ==
  \A c \in Calls :
    calls[c].name \in SingleTools /\ Succeeded(calls[c]) =>
      Cardinality(OwnCalls(calls[c])) = 1

\* C20, amended: but for user_analysis and list_threads a handler that has resolved
\* its targets makes exactly one library call; user_analysis makes one per text channel
\* of the guild and list_threads one or two, all of them reads.  A handler makes at
\* most one mutation, as its last call and only after a resolution that found its
\* targets, and what it changes on the platform is that mutation and nothing else
C20_OneMutationAfterResolving ==
  \A c \in Calls :
    LET call == calls[c]  n == Cardinality(OwnCalls(call)) IN
    call.name \in SingleTools =>
      /\ call.name \notin ManyCallTools => n <= 1 /\ (Succeeded(call) => n = 1)
      /\ call.name \in ManyCallTools => Mutations(call) = {}
      /\ call.name = "user_analysis" /\ Succeeded(call) =>
           n = Len(TextChannels(plat, call.guild))
      /\ call.name = "list_threads" /\ Succeeded(call) =>
           n = (IF FetchesArchived(call) THEN 2 ELSE 1)
      /\ \A i \in Mutations(call) :
           /\ i = Len(call.log) /\ call.log[i].step = "mutate"
           /\ i > 1 => Hit(call.log[i - 1].out)
      /\ Len(plat.effects) <= 1
      /\ plat.effects # <<>> <=> (Succeeded(call) /\ Mutations(call) # {})
      /\ plat.effects # <<>> => plat.effects[1].op = MutateOp(call.name)
      /\ plat.effects = <<>> => Objects(plat) = Objects(InitPlat)

\* a role is assigned after a member lookup by name and a role lookup by name: one
\* mutation, the last of the calls
C20_Witness ==
  \E c \in Calls :
    /\ Succeeded(calls[c]) /\ calls[c].name = "assign_role"
    /\ calls[c].args.user_id = "bob" /\ calls[c].args.role_id = "mods"
    /\ Len(calls[c].log) = 2 /\ Mutations(calls[c]) = {2}
    /\ Len(plat.effects) = 1 /\ plat.effects[1].target = "k2" /\ plat.effects[1].arg = "k2"

\* ------------------------------------------------------------ failures of remote calls
\* the remote calls whose rejection the code catches: discord.channels.fetch in
\* resolveTextChannel and fetchThread, channel.messages.fetch in the loop of
\* user_analysis, threads.fetchArchived in list_threads
Caught(entry) ==
  \/ entry.op = "channels.fetch" /\ entry.step \in {"textChannel", "thread"}
  \/ entry.step \in {"readEach", "readArchived"}
Rejected(call) == {i \in DOMAIN call.log : call.log[i].out = "fail"}

\* C21 as stated: a remote call that fails makes the tool call fail
C21_EveryFailureSurfaces ==
  \A c \in Calls :
    calls[c].name \in SingleTools /\ calls[c].pc = "done" =>
      \A i \in Rejected(calls[c]) : Failed(calls[c])

\* C21, amended: but for the four remote calls whose rejection the code catches, a
\* remote call that fails is the last call of the handler and makes the tool call fail
\* with the platform's error, or makes the batch item "failed"; a failed call is not
\* made again
C21_UncaughtFailureSurfaces ==
  \A c \in Calls :
    LET call == calls[c] IN
    /\ call.name \in SingleTools =>
         /\ \A i \in Rejected(call) :
              \/ Caught(call.log[i])
              \/ i = Len(call.log) /\ Threw(call, ErrPlatform)
         /\ \A i \in Rejected(call) : \A j \in DOMAIN call.log :
              j > i /\ call.log[j].op = call.log[i].op => call.log[i].step = "readEach"
         /\ Cardinality({i \in DOMAIN call.log : call.log[i].step = "readEach"})
              <= Len(TextChannels(plat, call.guild))
    /\ call.name \in BatchTools /\ Succeeded(call) =>
         \A i \in DOMAIN call.items :
           call.items[i].err = ErrPlatform =>
             /\ ResultOf(call)[i].status = "failed"
             /\ ResultOf(call)[i].error = ErrPlatform

\* the fetch of the channel fails and is caught, the listing of the active threads
\* fails and fails the call
C21_Witness ==
  \E c \in Calls :
    /\ calls[c].name = "get_messages" /\ Threw(calls[c], ErrPlatform)
    /\ Rejected(calls[c]) = {2, 3}
    /\ Caught(calls[c].log[2]) /\ ~Caught(calls[c].log[3])

\* ------------------------------------------------------------ calls in progress
\* the calls whose handler has been entered and has not yet answered
InProgress == {c \in Calls : calls[c].pc \notin {"idle", "done"}}

\* C22: a tool call is handled to its end before the handling of the next one
\* starts, no two tool calls are in progress at the same time
C22_OneCallAtATime == Cardinality(InProgress) <= 1

\* ------------------------------------------------------------ batch and single tools
\* the single-operation tool that a batch tool is said to apply to each item
SingleOf(name) ==
  CASE name = "mass_channels" -> "create_channel"
    [] name = "mass_delete" -> "delete"
    [] name = "mass_send_message" -> "send_message"
    [] name = "mass_create_role" -> "create_role"
    [] name = "mass_delete_role" -> "delete_role"
    [] name = "mass_ban" -> "ban_user"
    [] name = "mass_time_out" -> "time_out_user"
    [] OTHER -> None
PairedSingles == {"create_channel", "delete", "send_message", "create_role", "delete_role",
                  "ban_user", "time_out_user"}

\* one operation that has ended: the tool, its argument x, whether it succeeded and
\* the error if it did not; of a single call, or of a batch call with the one item x
SingleArg(call) ==
  CASE call.name \in {"delete", "send_message"} -> call.args.channel_id
    [] call.name = "delete_role" -> call.args.role_id
    [] call.name \in {"ban_user", "time_out_user"} -> call.args.user_id
    [] OTHER -> None
Units ==
  {[by |-> calls[c].name, tool |-> calls[c].name, g |-> calls[c].guild,
    x |-> SingleArg(calls[c]), ok |-> Succeeded(calls[c]),
    err |-> IF Succeeded(calls[c]) THEN None ELSE ErrorOf(calls[c])] :
     c \in {d \in Calls : calls[d].name \in PairedSingles /\ calls[d].pc = "done" /\
                           calls[d].guild # None}}
  \cup
  {[by |-> calls[c].name, tool |-> SingleOf(calls[c].name), g |-> calls[c].guild,
    x |-> IF SingleOf(calls[c].name) \in {"create_channel", "create_role"} THEN None
          ELSE calls[c].args.items[1],
    ok |-> calls[c].items[1].st = "fulfilled", err |-> calls[c].items[1].err] :
     c \in {d \in Calls : SingleOf(calls[d].name) # None /\ Succeeded(calls[d]) /\
                           Len(calls[d].items) = 1}}

\* the member that resolveMember finds for x, or None
Resolved(x) ==
  IF SeventeenToTwentyDigits(x) THEN (IF x \in MemberIds THEN x ELSE None)
  ELSE IF Bearers(x) = {} THEN None
  ELSE Roster[CHOOSE i \in Bearers(x) : \A j \in Bearers(x) : i <= j].id

\* the inputs on which the single-operation tool can succeed, the errors with which
\* it can fail, and what it has done to the platform when it has succeeded
CanSucceed(tool, g, x) ==
  CASE tool = "delete" -> ChannelsIn(InitPlat, g, x) # {}
    [] tool = "delete_role" -> RolesIn(InitPlat, g, x) # {}
    [] tool = "send_message" -> \A ch \in ChannelsIn(InitPlat, g, x) : isTextBased(ch)
    [] tool \in {"ban_user", "time_out_user"} -> Resolved(x) # None
    [] OTHER -> TRUE
CanFailWith(tool, g, x) ==
  CASE tool = "delete" ->
         IF ChannelsIn(InitPlat, g, x) # {} THEN {ErrPlatform} ELSE {ErrChannelNotFound}
    [] tool = "delete_role" ->
         IF RolesIn(InitPlat, g, x) # {} THEN {ErrPlatform} ELSE {ErrRoleNotFound}
    [] tool = "send_message" ->
         IF ChannelsIn(InitPlat, g, x) = {}
         THEN {ErrPlatform, ErrNotTextBased, ErrChannelOrThreadNotFound}
         ELSE IF CanSucceed(tool, g, x) THEN {ErrPlatform} ELSE {ErrNotTextBased}
    [] tool \in {"ban_user", "time_out_user"} ->
         IF ~SeventeenToTwentyDigits(x) /\ Resolved(x) = None
         THEN {ErrPlatform, ErrUserNotFound} ELSE {ErrPlatform}
    [] OTHER -> {ErrPlatform}
Done(tool, g, x) ==
  CASE tool = "create_channel" ->
         \E ch \in plat.channels \ InitPlat.channels : ch.guild = g /\ ch.type = "text"
    [] tool = "create_role" -> \E r \in plat.roles \ InitPlat.roles : r.guild = g
    [] tool = "delete" -> ChannelsIn(plat, g, x) = {}
    [] tool = "delete_role" -> RolesIn(plat, g, x) = {}
    [] tool = "send_message" -> \E m \in plat.msgs \ InitPlat.msgs : m.chan = x
    [] tool = "ban_user" -> plat.bans = {<<g, Resolved(x)>>}
    [] OTHER -> plat.timeouts = {<<g, Resolved(x)>>}
SameLogic(u) ==
  /\ u.ok => CanSucceed(u.tool, u.g, u.x) /\ Done(u.tool, u.g, u.x)
  /\ ~u.ok => u.err \in CanFailWith(u.tool, u.g, u.x)

C24_OnlySetGuildWrites ==
  [][/\ file' # file => \E c \in Calls : SetGuildDone(c)
     /\ ~alive /\ alive' =>
          /\ file' = file
          /\ discordReady' = "pending" /\ waiting' = <<>>
          /\ \A c \in Calls : calls'[c] = IdleCall
          /\ plat'.memberCache = {} /\ plat'.msgCache = {}]_vars

\* a guild-scoped call with an explicit guild has changed the platform, the file is
\* still missing
C24_Witness ==
  \E c \in Calls :
    /\ Succeeded(calls[c]) /\ calls[c].name = "create_role"
    /\ calls[c].args.guild_id = "g1" /\ plat.effects # <<>>
    /\ file = MissingFile

\* ------------------------------------------------------------ set_guild and the cache
\* the handler of c has run to its end in this step, and it was a set_guild
SetGuildEnded(c) ==
  /\ calls[c].pc = "awaitReady" \/ nreq' # nreq
  /\ calls'[c].name = "set_guild"
  /\ calls'[c].pc = "done"

\* C25: set_guild(X) with X not in the guild cache fails, with the guild-not-found
\* error once the connection is up, and leaves the file as it was; a default that
\* set_guild writes is the identifier of a guild in the cache
C25_UnknownGuildNotPersisted ==
  [][\A c \in Calls :
       SetGuildEnded(c) =>
         LET X == calls'[c].args.guild_id IN
         /\ ~InGuildCache(X) =>
              /\ Failed(calls'[c]) /\ file' = file
              /\ discordReady' = "fulfilled" =>
                   calls'[c].response = ThrowResponse(ErrGuildNotFound)
         /\ file' # file => InGuildCache(X) /\ Succeeded(calls'[c])
         /\ file'.default_guild_id \in {file.default_guild_id, X}]_vars

\* set_guild for a guild the bot is not in has failed, the file has the default it had
C25_Witness ==
  \E c \in Calls :
    /\ calls[c].name = "set_guild" /\ ~InGuildCache(calls[c].args.guild_id)
    /\ calls[c].response = ThrowResponse(ErrGuildNotFound)
    /\ file = ObjectFile("g1") /\ hist.lastWriter = "set_guild"

RefusedCall(call) ==
  /\ call.pc = "done" /\ call.response = ThrowResponse(ErrLogin)
  /\ call.guild = None /\ call.log = <<>> /\ call.items = <<>> /\ call.pre.n = 0

\* C27: once discordReady has rejected, a step of the process answers every call it
\* handles, of whatever tool, with isError and the connection's error, and changes
\* neither the config file nor the platform; discordReady stays rejected until the
\* process is started anew
C27_FailedConnectionIsFinal ==
  [][/\ discordReady' = "rejected" =>
          /\ file' = file /\ plat' = plat
          /\ \A c \in Calls : calls'[c].pc = "idle" \/ RefusedCall(calls'[c])
     /\ discordReady = "rejected" /\ discordReady' # "rejected" =>
          discordReady' = "pending" /\ \A c \in Calls : calls'[c] = IdleCall]_vars

\* a call that came after the failure
C27_Witness ==
  /\ discordReady = "rejected" /\ alive
  /\ \E c \in Calls :
       /\ RefusedCall(calls[c])
       /\ calls[c].name = "set_guild" /\ calls[c].args.guild_id = "g1"
       /\ ~calls[c].parked /\ file = MissingFile

\* ------------------------------------------------------------ C28
\* a guild-scoped call that has resolved its guild
Scoped(call) == call.pc # "idle" /\ call.name \notin GuildTools /\ call.guild # None

\* C28: a guild-scoped call resolves its guild once, before any remote call, to the
\* guild_id argument when there is one and to the default persisted at that moment
\* otherwise; the argument leaves the persisted default alone; and every remote call
\* of the call acts in that guild, whatever becomes of the default meanwhile
C28_OneGuildPerCall ==
  /\ \A c \in Calls : LET call == calls[c] IN
        /\ Scoped(call) =>
              call.guild = IF call.args.guild_id # None THEN call.args.guild_id
                           ELSE call.obs.lastSet
        /\ call.pc # "idle" /\ call.name \notin GuildTools
              /\ (call.log # <<>> \/ call.items # <<>>) => call.guild # None
  /\ file.default_guild_id = hist.lastSet
  /\ \A i \in DOMAIN plat.effects : plat.effects[i].guild = plat.effects[i].scope

\* ------------------------------------------------------------ C29
\* the handler of call c has run past requireDiscord and ended in this step
EndedPastReady(c) ==
  /\ calls[c].pc = "awaitReady" \/ nreq' # nreq
  /\ calls'[c].pc = "done"
  /\ discordReady' = "fulfilled"

Stale(d) == d # None /\ ~InGuildCache(d)

\* C29: get_guild answers without isError whatever the state of the default: with no
\* default persisted, default_guild_id null and the hint; with a persisted default
\* whose guild is not in the cache, the saved identifier and the warning; and with
\* such a default a guild-scoped tool called without guild_id fails with the
\* guild-not-found error
C29_GetGuildNeverErrs ==
  [][\A c \in Calls :
       EndedPastReady(c) =>
         LET call == calls'[c]  d == file.default_guild_id IN
         /\ call.name = "get_guild" /\ d = None =>
              /\ Succeeded(call)
              /\ call.exit = <<"returned", [default_guild_id |-> None,
                                            message |-> "No default guild set. Use set_guild."]>>
         /\ call.name = "get_guild" /\ Stale(d) =>
              /\ Succeeded(call)
              /\ call.exit = <<"returned",
                               [default_guild_id |-> d,
                                message |-> "Saved but bot may no longer be in this server"]>>
         /\ call.name = "mass_ban" /\ call.args.guild_id = None /\ Stale(d) =>
              call.response = ThrowResponse(ErrGuildNotFound)]_vars

\* ------------------------------------------------------------ C30
ChannelErrors == {ErrChannelOrThreadNotFound, ErrNotTextBased}

\* a batch call of the given tool that has entered its case with the guild resolved
InCase(call, name) == call.pc # "idle" /\ call.name = name /\ call.guild # None

\* C30: mass_delete_message resolves its one channel before the fan-out: while the
\* channel is unresolved no item has been started, and a call that ends with the
\* channel unresolved ends with isError and the error's text, not with a list of
\* outcomes.  mass_send_message resolves each item's channel inside the item: every
\* item is started, the call ends without isError, an item whose channel does not
\* resolve gets the outcome "failed" with that error, and every item that settled
\* well gets "sent" with the message on the platform
C30_SharedChannelFirst ==
  \A c \in Calls : LET call == calls[c]  its == call.items IN
    /\ InCase(call, "mass_delete_message") =>
         /\ call.channel = None => its = <<>>
         /\ call.pc = "done" /\ call.channel = None =>
              /\ Failed(call)
              /\ call.exit[1] = "threw"
              /\ call.response = ThrowResponse(call.exit[2])
              /\ call.exit[2] \in ChannelErrors \cup {ErrPlatform}
         /\ call.pc = "done" /\ call.channel # None =>
              Succeeded(call) /\ ResultOf(call) = Results(call)
    /\ InCase(call, "mass_send_message") =>
         /\ Len(its) = Len(call.args.items)
         /\ call.pc = "done" =>
              /\ Succeeded(call)
              /\ ResultOf(call) = Results(call)
              /\ \A i \in 1..Len(its) :
                   /\ its[i].st \in {"fulfilled", "rejected"}
                   /\ its[i].st = "rejected" =>
                        ResultOf(call)[i] = [channel_id |-> call.args.items[i],
                                             status |-> "failed", error |-> its[i].err]
                   /\ its[i].st = "fulfilled" =>
                        /\ ResultOf(call)[i].status = "sent"
                        /\ EffectPresent(plat, call, i)

\* mass_delete_message with messages to delete has ended with isError because its
\* channel was not found after both remote lookups, and no item was started
C30_Witness ==
  LET call == calls["c1"] IN
  /\ InCase(call, "mass_delete_message") /\ call.pc = "done"
  /\ call.args.items # <<>>
  /\ call.pre = [st |-> "rejected", n |-> 2]
  /\ call.response = ThrowResponse(ErrChannelOrThreadNotFound)
  /\ call.items = <<>>
====
